---------------------------- MODULE Spec2Model ----------------------------
(* dtmm: field data validation and the .dtmf container (dtmm/field.py),    *)
(* the rotation algebra (dtmm/rotation.py) and the configuration they read *)
(* (dtmm/conf.py).                                                         *)
(*                                                                         *)
(* Numbers are integers.  An array element is a pair <<re, im>> (im = 0    *)
(* for a real dtype); the values used are small integers, which every      *)
(* dtype of conf.py represents exactly, so a dtype cast changes the dtype  *)
(* tag and drops nothing.                                                  *)
EXTENDS Integers, Sequences, FiniteSets, TLC

VARIABLES
    double,     \* conf.py: DTMM_DOUBLE_PRECISSION as read at import
    data,       \* the (field, wavelengths, pixelsize) argument of the session
    pc,         \* position of the running call
    call,       \* the running call's frame: op, file argument, locals
    result,     \* outcome of the last finished call
    fs,         \* the file system: path -> [exists, bytes]
    fh,         \* the handle the running call opened itself
    stream,     \* a file object owned by the caller (closer: who closed it)
    ghost,      \* history: what the last completed save wrote, and where
    rot,        \* the last call into rotation.py: function, arguments, outcome
    kern,       \* the running field2specter / field2spectersum kernel
    wave,       \* the last waves2field call: arguments and the field built
    conf        \* conf.py: DTMMConfig.cache, the _cache dict, the last call

iovars == <<double, data, pc, call, result, fs, fh, stream, ghost>>
others == <<kern, wave, conf>>
vars == <<double, data, pc, call, result, fs, fh, stream, ghost, rot, kern, wave, conf>>

-----------------------------------------------------------------------------
(* Bounds of the model *)

MaxNdim == 5        \* arrays have at most this many axes
MaxDim == 2         \* every axis has length 1..MaxDim
MaxElems == 2       \* arrays have at most this many elements
MaxCalls == 2       \* save_field / load_field calls in one session

-----------------------------------------------------------------------------
(* conf.py: dtypes *)

FDTYPE == IF double THEN "float64" ELSE "float32"
CDTYPE == IF double THEN "complex128" ELSE "complex64"

IsComplex(dtype) == dtype \in {"complex64", "complex128"}

-----------------------------------------------------------------------------
(* numpy arrays: [dtype, shape, data], data in C order *)

RECURSIVE Prod(_)
Prod(shape) == IF shape = <<>> THEN 1 ELSE Head(shape) * Prod(Tail(shape))

Shapes(maxn) ==
    {s \in UNION {[1..n -> 1..MaxDim] : n \in 0..maxn} : Prod(s) <= MaxElems}

Fill(n, seed, cplx) == [i \in 1..n |-> <<seed + i, IF cplx THEN i ELSE 0>>]

Array(dtype, shape, seed) ==
    [dtype |-> dtype, shape |-> shape,
     data |-> Fill(Prod(shape), seed, IsComplex(dtype))]

ndim(a) == Len(a.shape)

\* np.asarray(a, dtype = dtype): same shape, elements cast to dtype.
\* A complex element cast to a real dtype keeps its real part.
asarray(a, dtype) ==
    [dtype |-> dtype, shape |-> a.shape,
     data |-> [i \in 1..Len(a.data) |->
                 IF IsComplex(dtype) THEN a.data[i] ELSE <<a.data[i][1], 0>>]]

\* float(x) of a Python number
float(x) == [type |-> "float", v |-> x.v]

-----------------------------------------------------------------------------
(* Exceptions and call outcomes *)

NoExc == [type |-> "none", msg |-> ""]
Exc(t, m) == [type |-> t, msg |-> m]

NoTriple ==
    [field |-> [dtype |-> "none", shape |-> <<>>, data |-> <<>>],
     wavelengths |-> [dtype |-> "none", shape |-> <<>>, data |-> <<>>],
     pixelsize |-> [type |-> "none", v |-> 0]]

Returned(t) == [kind |-> "return", exc |-> NoExc, val |-> t]
Raised(e) == [kind |-> "raise", exc |-> e, val |-> NoTriple]
NoResult == [kind |-> "none", exc |-> NoExc, val |-> NoTriple]

\* no call into rotation.py made yet
NoRot == [fn |-> "none", R |-> <<>>, diagonal |-> <<>>]

\* no kernel of field.py running, no waves2field call made yet
NoKern == [fn |-> "none"]
NoWave == [fn |-> "none"]

\* conf.py lines 122, 175, 257 at import: the functions decorated with
\* cached_function have an empty cache each and DTMMConfig.cache is 1
CachedFuncs == {"f1", "f2"}
ConfInit ==
    [cache |-> 1, cached |-> [f \in CachedFuncs |-> {}], ncalls |-> 0,
     last |-> [op |-> "none"]]

-----------------------------------------------------------------------------
(* field.py: validate_field_data *)

\* field.shape[-4] is shape[ndim - 3] counting from 1.  len(wavelengths) is
\* evaluated before wavelengths.ndim is looked at; len() of a 0-d array
\* raises TypeError.
validate_field_data(d) ==
    LET field == asarray(d.field, CDTYPE)
        wavelengths == asarray(d.wavelengths, FDTYPE)
        pixelsize == float(d.pixelsize)
    IN  IF ndim(field) < 4
        THEN Raised(Exc("ValueError", "Invald field dimensions"))
        ELSE IF ndim(wavelengths) = 0
        THEN Raised(Exc("TypeError", "len() of unsized object"))
        ELSE IF field.shape[ndim(field) - 3] /= wavelengths.shape[1]
                \/ ndim(wavelengths) /= 1
        THEN Raised(Exc("ValueError", "Incompatible wavelengths shape."))
        ELSE Returned([field |-> field, wavelengths |-> wavelengths,
                       pixelsize |-> pixelsize])

-----------------------------------------------------------------------------
(* Inputs *)

FieldInputs ==
    {Array(dt[1], s, dt[2]) :
        s \in Shapes(MaxNdim),
        dt \in {<<"complex128", 0>>, <<"complex64", 1>>, <<"float64", 1>>}}

WavelengthInputs ==
    {Array(dt[1], s, dt[2]) :
        s \in Shapes(2), dt \in {<<"float64", 0>>, <<"int64", 1>>}}

PixelInputs == {[type |-> "int", v |-> 200], [type |-> "float", v |-> 1]}

Triples ==
    [field : FieldInputs, wavelengths : WavelengthInputs, pixelsize : PixelInputs]

-----------------------------------------------------------------------------
(* numpy.save / numpy.load: a record is a marker, the dtype code, the number *)
(* of axes, the axes, then the elements in C order (two numbers for a        *)
(* complex element, one for a real one).                                     *)

NPY == 147

DtypeCode(dtype) ==
    CASE dtype = "float32" -> 1 [] dtype = "float64" -> 2
      [] dtype = "complex64" -> 3 [] dtype = "complex128" -> 4
      [] dtype = "int64" -> 5

CodeDtype(c) ==
    CASE c = 1 -> "float32" [] c = 2 -> "float64" [] c = 3 -> "complex64"
      [] c = 4 -> "complex128" [] c = 5 -> "int64" [] OTHER -> "none"

RECURSIVE Flat(_, _)
Flat(elems, cplx) ==
    IF elems = <<>> THEN <<>>
    ELSE (IF cplx THEN Head(elems) ELSE <<Head(elems)[1]>>)
         \o Flat(Tail(elems), cplx)

np_save(a) ==
    <<NPY, DtypeCode(a.dtype), Len(a.shape)>> \o a.shape
        \o Flat(a.data, IsComplex(a.dtype))

\* np.save(f, x) of a Python float: a 0-d float64 array
np_save_scalar(x) == np_save([dtype |-> "float64", shape |-> <<>>, data |-> <<<<x.v, 0>>>>])

NoArray == [dtype |-> "none", shape |-> <<>>, data |-> <<>>]

\* np.load from position pos (bytes consumed so far): [ok, arr, pos]
np_load(bytes, pos) ==
    LET n == Len(bytes)
        hdr == pos + 3 <= n /\ bytes[pos + 1] = NPY
                 /\ CodeDtype(bytes[pos + 2]) /= "none"
                 /\ bytes[pos + 3] >= 0
                 /\ pos + 3 + bytes[pos + 3] <= n
    IN  IF ~hdr THEN [ok |-> FALSE, arr |-> NoArray, pos |-> pos]
        ELSE
        LET dtype == CodeDtype(bytes[pos + 2])
            nd == bytes[pos + 3]
            shape == SubSeq(bytes, pos + 4, pos + 3 + nd)
            w == IF IsComplex(dtype) THEN 2 ELSE 1
            start == pos + 3 + nd
            good == \A i \in 1..nd : shape[i] >= 0
        IN  IF ~good \/ start + w * Prod(shape) > n
            THEN [ok |-> FALSE, arr |-> NoArray, pos |-> pos]
            ELSE [ok |-> TRUE,
                  arr |-> [dtype |-> dtype, shape |-> shape,
                           data |-> [i \in 1..Prod(shape) |->
                              IF w = 2
                              THEN <<bytes[start + 2*i - 1], bytes[start + 2*i]>>
                              ELSE <<bytes[start + i], 0>>]],
                  pos |-> start + w * Prod(shape)]

\* float(a) of a loaded array: defined for a one-element real array
float_of_array_ok(a) == Len(a.data) = 1 /\ ~IsComplex(a.dtype)
float_of_array(a) == [type |-> "float", v |-> a.data[1][1]]

-----------------------------------------------------------------------------
(* field.py: the container *)

MAGIC == <<100, 116, 109, 102>>     \* b"dtmf"
VERSION == <<0>>                    \* b"\x00"

Container(t) ==
    MAGIC \o VERSION \o np_save(t.field) \o np_save(t.wavelengths)
        \o np_save_scalar(t.pixelsize)

-----------------------------------------------------------------------------
(* File names, the file system, file objects *)

EXT == <<".", "d", "t", "m", "f">>

\* str.endswith
endswith(s, suffix) ==
    Len(s) >= Len(suffix)
    /\ SubSeq(s, Len(s) - Len(suffix) + 1, Len(s)) = suffix

Names == {<<"a">> \o EXT, <<"b", ".", "t">>}
LoadNames == Names \cup {n \o EXT : n \in Names}
Paths == LoadNames \cup {n \o EXT : n \in LoadNames}

NoPath == <<>>
StrArg(n) == [kind |-> "str", name |-> n]
FileObjArg == [kind |-> "fileobj", name |-> NoPath]

Absent == [exists |-> FALSE, bytes |-> <<>>]
File(b) == [exists |-> TRUE, bytes |-> b]

NoHandle == [state |-> "none", path |-> NoPath, mode |-> "", pos |-> 0]

\* f.write(b) at position pos: overwrite, extending the file when needed
WriteAt(bytes, pos, b) ==
    SubSeq(bytes, 1, pos) \o b \o SubSeq(bytes, pos + Len(b) + 1, Len(bytes))

\* f.read(n) at position pos
ReadAt(bytes, pos, n) ==
    SubSeq(bytes, pos + 1, IF pos + n <= Len(bytes) THEN pos + n ELSE Len(bytes))

\* the handle f is bound to: the call's own handle or the caller's object
HBytes == IF call.f = "own" THEN fs[fh.path].bytes ELSE stream.bytes
HPos == IF call.f = "own" THEN fh.pos ELSE stream.pos
HClosed == IF call.f = "own" THEN fh.state /= "open" ELSE stream.closed

SetH(bytes, pos) ==
    IF call.f = "own"
    THEN /\ fs' = [fs EXCEPT ![fh.path] = File(bytes)]
         /\ fh' = [fh EXCEPT !.pos = pos]
         /\ UNCHANGED stream
    ELSE /\ stream' = [stream EXCEPT !.bytes = bytes, !.pos = pos]
         /\ UNCHANGED <<fs, fh>>

\* f.close() on the handle f is bound to
Close(f) ==
    /\ fh' = IF f = "own" THEN [fh EXCEPT !.state = "closed"] ELSE fh
    /\ stream' = IF f = "arg"
                 THEN [stream EXCEPT !.closed = TRUE, !.closer = "callee"]
                 ELSE stream

NoGhost == [target |-> "none", path |-> NoPath, start |-> 0, triple |-> NoTriple]

Frame(op, file) ==
    [op |-> op, file |-> file, own_fid |-> FALSE, f |-> "unbound",
     exc |-> NoExc, wstep |-> 0, nloads |-> 0, val |-> NoTriple,
     n |-> call.n + 1, fs0 |-> fs, stream0 |-> stream]

\* the caller's tell() when it hands its file object to a call
Mark(file) ==
    IF file.kind = "fileobj" THEN [stream EXCEPT !.mark = stream.pos] ELSE stream

-----------------------------------------------------------------------------
(* field.py: save_field *)

\* lines 307-308
save_target_noappend(name) == name
save_target(name) == IF ~endswith(name, EXT) THEN name \o EXT ELSE name

\* lines 313-317: the k-th record written (k = 0..4)
save_record_swapped(val, k) ==
    CASE k = 0 -> MAGIC [] k = 1 -> VERSION
      [] k = 2 -> np_save(val.wavelengths) [] k = 3 -> np_save(val.field)
      [] k = 4 -> np_save_scalar(val.pixelsize)
save_record(val, k) ==
    CASE k = 0 -> MAGIC [] k = 1 -> VERSION
      [] k = 2 -> np_save(val.field) [] k = 3 -> np_save(val.wavelengths)
      [] k = 4 -> np_save_scalar(val.pixelsize)

\* lines 319-320, 349-350: "if own_fid == True: f.close()"
finally_closes_always(own_fid) == TRUE
finally_closes(own_fid) == own_fid = TRUE

\* lines 303-304: own_fid = False, then validate_field_data before the try
save_field_call(file) ==
    /\ pc = "idle" /\ call.n < MaxCalls
    /\ LET v == validate_field_data(data)
       IN  /\ call' = [Frame("save", file) EXCEPT !.val = v.val]
           /\ IF v.kind = "raise"
              THEN pc' = "idle" /\ result' = v
              ELSE pc' = "s_open" /\ result' = NoResult
    /\ fh' = NoHandle
    /\ stream' = Mark(file)
    /\ UNCHANGED <<others, rot, double, data, fs, ghost>>

\* lines 306-312
save_field_open ==
    /\ pc = "s_open"
    /\ IF call.file.kind = "str"
       THEN \E fault \in BOOLEAN :
            IF fault
            THEN /\ call' = [call EXCEPT !.exc = Exc("OSError", "open failed")]
                 /\ pc' = "s_finally"
                 /\ UNCHANGED <<fs, fh, ghost>>
            ELSE LET name == save_target(call.file.name)
                 IN  /\ fs' = [fs EXCEPT ![name] = File(<<>>)]
                     /\ fh' = [state |-> "open", path |-> name,
                               mode |-> "wb", pos |-> 0]
                     /\ call' = [call EXCEPT !.own_fid = TRUE, !.f = "own"]
                     /\ pc' = "s_write"
                     /\ ghost' = NoGhost
       ELSE /\ call' = [call EXCEPT !.f = "arg"]
            /\ pc' = "s_write"
            /\ UNCHANGED <<fs, fh, ghost>>
    /\ UNCHANGED <<others, rot, double, data, result, stream>>

\* lines 313-317, one write per step
save_field_write ==
    /\ pc = "s_write"
    /\ IF HClosed
       THEN /\ call' = [call EXCEPT
                          !.exc = Exc("ValueError", "I/O operation on closed file")]
            /\ pc' = "s_finally"
            /\ UNCHANGED <<fs, fh, stream, ghost>>
       ELSE \E fault \in BOOLEAN :
            IF fault
            THEN /\ call' = [call EXCEPT !.exc = Exc("OSError", "write failed")]
                 /\ pc' = "s_finally"
                 /\ UNCHANGED <<fs, fh, stream, ghost>>
            ELSE LET b == save_record(call.val, call.wstep)
                 IN  /\ SetH(WriteAt(HBytes, HPos, b), HPos + Len(b))
                     /\ call' = [call EXCEPT !.wstep = call.wstep + 1]
                     /\ pc' = IF call.wstep = 4 THEN "s_finally" ELSE "s_write"
                     /\ ghost' = NoGhost
    /\ UNCHANGED <<others, rot, double, data, result>>

\* lines 318-320; the call returns None or the pending exception propagates
save_field_finally ==
    /\ pc = "s_finally"
    /\ IF finally_closes(call.own_fid)
       THEN Close(call.f)
       ELSE UNCHANGED <<fh, stream>>
    /\ result' = IF call.exc = NoExc THEN Returned(NoTriple) ELSE Raised(call.exc)
    /\ ghost' = IF call.exc /= NoExc THEN ghost
                ELSE IF call.f = "own"
                THEN [target |-> "path", path |-> fh.path, start |-> 0,
                      triple |-> call.val]
                ELSE [target |-> "stream", path |-> NoPath,
                      start |-> stream.mark, triple |-> call.val]
    /\ pc' = "idle"
    /\ UNCHANGED <<others, rot, double, data, call, fs>>

-----------------------------------------------------------------------------
(* field.py: load_field *)

\* line 339
magic_ok_prefix(magic) == magic = SubSeq(MAGIC, 1, Len(magic))
magic_ok(magic) == magic = MAGIC

\* line 340
version_ok(v) == v = VERSION

\* line 331
load_field_call(file) ==
    /\ pc = "idle" /\ call.n < MaxCalls
    /\ call' = Frame("load", file)
    /\ pc' = "l_open"
    /\ result' = NoResult
    /\ fh' = NoHandle
    /\ stream' = Mark(file)
    /\ UNCHANGED <<others, rot, double, data, fs, ghost>>

\* lines 333-337: the path is opened as given
load_field_open ==
    /\ pc = "l_open"
    /\ IF call.file.kind = "str"
       THEN IF ~fs[call.file.name].exists
            THEN /\ call' = [call EXCEPT
                               !.exc = Exc("FileNotFoundError", "No such file")]
                 /\ pc' = "l_finally"
                 /\ UNCHANGED fh
            ELSE \E fault \in BOOLEAN :
                 IF fault
                 THEN /\ call' = [call EXCEPT !.exc = Exc("OSError", "open failed")]
                      /\ pc' = "l_finally"
                      /\ UNCHANGED fh
                 ELSE /\ fh' = [state |-> "open", path |-> call.file.name,
                                mode |-> "rb", pos |-> 0]
                      /\ call' = [call EXCEPT !.own_fid = TRUE, !.f = "own"]
                      /\ pc' = "l_magic"
       ELSE /\ call' = [call EXCEPT !.f = "arg"]
            /\ pc' = "l_magic"
            /\ UNCHANGED fh
    /\ UNCHANGED <<others, rot, double, data, result, fs, stream, ghost>>

\* lines 338-339, 346-347
load_field_magic ==
    /\ pc = "l_magic"
    /\ IF HClosed
       THEN /\ call' = [call EXCEPT
                          !.exc = Exc("ValueError", "I/O operation on closed file")]
            /\ pc' = "l_finally"
            /\ UNCHANGED <<fs, fh, stream>>
       ELSE LET magic == ReadAt(HBytes, HPos, Len(MAGIC))
            IN  /\ SetH(HBytes, HPos + Len(magic))
                /\ IF magic_ok(magic)
                   THEN pc' = "l_version" /\ UNCHANGED call
                   ELSE /\ call' = [call EXCEPT
                              !.exc = Exc("OSError", "Failed to interpret file")]
                        /\ pc' = "l_finally"
    /\ UNCHANGED <<others, rot, double, data, result, ghost>>

\* lines 340-341
load_field_version ==
    /\ pc = "l_version"
    /\ LET v == ReadAt(HBytes, HPos, 1)
       IN  /\ SetH(HBytes, HPos + Len(v))
           /\ IF version_ok(v)
              THEN pc' = "l_arrays" /\ UNCHANGED call
              ELSE /\ call' = [call EXCEPT !.exc = Exc("OSError",
                        "This file was created with a more recent version of dtmm. Please upgrade your dtmm package!")]
                   /\ pc' = "l_finally"
    /\ UNCHANGED <<others, rot, double, data, result, ghost>>

\* lines 342-345: three np.load calls, then float() of the third
load_field_arrays ==
    /\ pc = "l_arrays"
    /\ LET r1 == np_load(HBytes, HPos)
           r2 == np_load(HBytes, r1.pos)
           r3 == np_load(HBytes, r2.pos)
       IN  IF ~r1.ok
           THEN /\ call' = [call EXCEPT !.nloads = 1,
                              !.exc = Exc("ValueError", "Cannot load file")]
                /\ UNCHANGED <<fs, fh, stream>>
           ELSE IF ~r2.ok
           THEN /\ call' = [call EXCEPT !.nloads = 2,
                              !.exc = Exc("ValueError", "Cannot load file")]
                /\ SetH(HBytes, r1.pos)
           ELSE IF ~r3.ok
           THEN /\ call' = [call EXCEPT !.nloads = 3,
                              !.exc = Exc("ValueError", "Cannot load file")]
                /\ SetH(HBytes, r2.pos)
           ELSE IF ~float_of_array_ok(r3.arr)
           THEN /\ call' = [call EXCEPT !.nloads = 3,
                              !.exc = Exc("TypeError", "float() of an array")]
                /\ SetH(HBytes, r3.pos)
           ELSE /\ call' = [call EXCEPT !.nloads = 3,
                              !.val = [field |-> r1.arr, wavelengths |-> r2.arr,
                                       pixelsize |-> float_of_array(r3.arr)]]
                /\ SetH(HBytes, r3.pos)
    /\ pc' = "l_finally"
    /\ UNCHANGED <<others, rot, double, data, result, ghost>>

\* lines 345, 348-350
load_field_finally ==
    /\ pc = "l_finally"
    /\ IF finally_closes(call.own_fid)
       THEN Close(call.f)
       ELSE UNCHANGED <<fh, stream>>
    /\ result' = IF call.exc = NoExc THEN Returned(call.val) ELSE Raised(call.exc)
    /\ pc' = "idle"
    /\ UNCHANGED <<others, rot, double, data, call, fs, ghost>>

-----------------------------------------------------------------------------
(* The caller: it owns its file object, and may seek or close it between calls *)

CallerSeek(p) ==
    /\ pc = "idle" /\ call.n < MaxCalls
    /\ ~stream.closed /\ stream.pos /= p
    /\ stream' = [stream EXCEPT !.pos = p]
    /\ UNCHANGED <<others, rot, double, data, pc, call, result, fs, fh, ghost>>

CallerClose ==
    /\ pc = "idle" /\ call.n < MaxCalls
    /\ ~stream.closed
    /\ stream' = [stream EXCEPT !.closed = TRUE, !.closer = "caller"]
    /\ UNCHANGED <<others, rot, double, data, pc, call, result, fs, fh, ghost>>

-----------------------------------------------------------------------------
(* Sessions *)

\* what a file may hold before the session: a short file, a file of another
\* format, a container of a later version
OldContents ==
    { <<100, 116>>,
      <<100, 116, 109, 120>> \o [i \in 1..28 |-> 7],
      MAGIC \o <<1>> \o np_save(Array("float64", <<1>>, 0)) }

\* the triples of a session: the cases validate_field_data tells apart, with
\* every axis but the leading one of length 1
IOTriples ==
    {t \in Triples :
        /\ ndim(t.field) \in 3..4
        /\ \A i \in 2..ndim(t.field) : t.field.shape[i] = 1
        /\ ndim(t.field) = 3 => t.field.shape[1] = 1
        /\ t.field.dtype = "complex128" \/ t.field.shape = <<1, 1, 1, 1>>
        /\ t.field.dtype /= "complex64"
        /\ ndim(t.wavelengths) = 2 => t.wavelengths.shape[2] = 1
        /\ t.wavelengths.dtype = "float64" \/ t.wavelengths.shape = <<1>>}

NoCall ==
    [op |-> "none", file |-> FileObjArg, own_fid |-> FALSE, f |-> "unbound",
     exc |-> NoExc, wstep |-> 0, nloads |-> 0, val |-> NoTriple,
     n |-> 0, fs0 |-> [p \in Paths |-> Absent],
     stream0 |-> [bytes |-> <<>>, pos |-> 0, closed |-> FALSE, mark |-> 0,
                     closer |-> "nobody"]]

Init ==
    /\ double \in BOOLEAN
    /\ data \in IOTriples
    /\ pc = "idle"
    /\ call = NoCall
    /\ result = NoResult
    /\ \E old \in OldContents :
         /\ fs = [p \in Paths |-> IF p = <<"a">> \o EXT THEN File(old) ELSE Absent]
         /\ stream = [bytes |-> old, pos |-> 0, closed |-> FALSE, mark |-> 0,
                     closer |-> "nobody"]
    /\ fh = NoHandle
    /\ ghost = NoGhost
    /\ rot = NoRot
    /\ kern = NoKern
    /\ wave = NoWave
    /\ conf = ConfInit

Next ==
    \/ \E n \in Names : save_field_call(StrArg(n))
    \/ save_field_call(FileObjArg)
    \/ save_field_open
    \/ save_field_write
    \/ save_field_finally
    \/ \E n \in LoadNames : load_field_call(StrArg(n))
    \/ load_field_call(FileObjArg)
    \/ load_field_open
    \/ load_field_magic
    \/ load_field_version
    \/ load_field_arrays
    \/ load_field_finally
    \/ \E p \in {0, stream.mark} : CallerSeek(p)
    \/ CallerClose

Spec == Init /\ [][Next]_vars

-----------------------------------------------------------------------------
(* validate_field_data called on its own *)

validate_call ==
    /\ pc = "idle" /\ call.n = 0
    /\ result' = validate_field_data(data)
    /\ pc' = "validated"
    /\ UNCHANGED <<others, rot, double, data, call, fs, fh, stream, ghost>>

InitValidate ==
    /\ double \in BOOLEAN
    /\ data \in Triples
    /\ pc = "idle"
    /\ call = NoCall
    /\ result = NoResult
    /\ fs = [p \in Paths |-> Absent]
    /\ stream = NoCall.stream0
    /\ fh = NoHandle
    /\ ghost = NoGhost
    /\ rot = NoRot
    /\ kern = NoKern
    /\ wave = NoWave
    /\ conf = ConfInit

NextValidate == validate_call

SpecValidate == InitValidate /\ [][NextValidate]_vars

-----------------------------------------------------------------------------
(* Properties of the container and of validation *)

Finished(op) == pc = "idle" /\ call.op = op /\ result.kind /= "none"

\* the triple in the configured dtypes, as the data model defines it
Coerced(d) ==
    [field |-> [d.field EXCEPT !.dtype = CDTYPE],
     wavelengths |-> [d.wavelengths EXCEPT !.dtype = FDTYPE],
     pixelsize |-> [d.pixelsize EXCEPT !.type = "float"]]

\* the data model's invariant (spec section 3)
ValidTriple(d) ==
    /\ Len(d.field.shape) >= 4
    /\ Len(d.wavelengths.shape) = 1
    /\ d.wavelengths.shape[1] = d.field.shape[Len(d.field.shape) - 3]

\* an I/O fault of the environment, or the caller's object was closed
IOFault(e) ==
    \/ e.type = "OSError" /\ e.msg \in {"open failed", "write failed"}
    \/ e.type = "ValueError" /\ e.msg = "I/O operation on closed file"

\* the finished load read the target of the last completed save, from the
\* position where that save began, and nothing was written in between
LoadedWhatWasSaved ==
    /\ Finished("load")
    /\ \/ ghost.target = "path" /\ call.file = StrArg(ghost.path)
       \/ ghost.target = "stream" /\ call.file = FileObjArg
            /\ stream.mark = ghost.start

\* C1: save_field followed by load_field from the target that was written
\* returns the saved field array, wavelengths array and pixel size exactly,
\* the pixel size as a plain float; the saved triple is the input in the
\* configured dtypes.  (The load may instead end in a fault of the
\* environment.)
C1_RoundTrip ==
    LoadedWhatWasSaved =>
        /\ ghost.triple = Coerced(data)
        /\ \/ result.kind = "raise" /\ IOFault(result.exc)
           \/ /\ result.kind = "return"
              /\ result.val.field = ghost.triple.field
              /\ result.val.wavelengths = ghost.triple.wavelengths
              /\ result.val.pixelsize = ghost.triple.pixelsize
              /\ result.val.pixelsize.type = "float"

C1_Witness ==
    /\ LoadedWhatWasSaved
    /\ result.kind = "return"
    /\ ghost.target = "stream" /\ stream.pos < Len(stream.bytes)
    /\ Len(result.val.field.data) = 2
    /\ data.wavelengths.dtype = "float64"

\* the bytes the finished load had before it, from where it began to read
LoadInput ==
    IF call.file.kind = "str"
    THEN call.fs0[call.file.name].bytes
    ELSE SubSeq(call.stream0.bytes, call.stream0.pos + 1, Len(call.stream0.bytes))

\* the load got as far as reading: the open succeeded, the object was open
LoadRead == Finished("load") /\ call.f /= "unbound" /\ ~IOFault(result.exc)

UpgradeMsg ==
    "This file was created with a more recent version of dtmm. Please upgrade your dtmm package!"

\* C2: load_field on data whose first 4 bytes are not the magic fails with
\* the "not a recognized file" error whatever follows; with the magic and
\* a version byte other than 0 (or none) it fails with the distinct upgrade
\* error; in both cases no array record is read and no triple is returned.
C2_MagicThenVersion ==
    LoadRead =>
        LET b == LoadInput
            first4 == SubSeq(b, 1, IF Len(b) < 4 THEN Len(b) ELSE 4)
        IN  /\ first4 /= <<100, 116, 109, 102>> =>
                 /\ result = Raised(Exc("OSError", "Failed to interpret file"))
                 /\ call.nloads = 0
            /\ (first4 = <<100, 116, 109, 102>> /\ (Len(b) < 5 \/ b[5] /= 0)) =>
                 /\ result = Raised(Exc("OSError", UpgradeMsg))
                 /\ call.nloads = 0

C2_Witness ==
    /\ LoadRead
    /\ result = Raised(Exc("OSError", UpgradeMsg))
    /\ Len(LoadInput) > 5 /\ LoadInput[5] = 1

\* C3: validate_field_data raises ValueError for every input that breaks the
\* data model's invariant (field.ndim < 4, a wavelengths length other than
\* field.shape[-4], wavelengths not 1-dimensional, 0-dimensional included),
\* and returns every other input with only the dtypes and the scalar coerced.
C3_ValidateRejects ==
    pc = "validated" =>
        IF ValidTriple(data)
        THEN result = Returned(Coerced(data))
        ELSE result.kind = "raise" /\ result.exc.type = "ValueError"

\* C4: when save_field or load_field has ended, on whatever path, the handle
\* it opened itself is closed, and it never closed the caller's file object.
C4_HandleOwnership ==
    /\ pc = "idle" => fh.state /= "open"
    /\ stream.closer /= "callee"

C4_Witness ==
    /\ Finished("load")
    /\ result.kind = "raise" /\ result.exc.msg = UpgradeMsg
    /\ fh.state = "closed"
    /\ ~stream.closed

\* C5: for every invalid triple save_field fails with the validation error
\* (ValueError) and touches nothing: no file is opened, created or truncated
\* and nothing is written to the caller's file object.
C5_ValidateFirst ==
    (Finished("save") /\ ~ValidTriple(data)) =>
        /\ result.kind = "raise" /\ result.exc.type = "ValueError"
        /\ fs = call.fs0
        /\ fh = NoHandle
        /\ stream.bytes = call.stream0.bytes /\ stream.pos = call.stream0.pos

\* the part of C5 about the target alone
C5_NothingTouched ==
    (Finished("save") /\ ~ValidTriple(data)) =>
        /\ result.kind = "raise"
        /\ fs = call.fs0
        /\ fh = NoHandle
        /\ stream.bytes = call.stream0.bytes /\ stream.pos = call.stream0.pos

HasExt(name) == \E k \in 0..Len(name) : name = SubSeq(name, 1, k) \o EXT

\* C6: save_field given a string without the .dtmf extension writes to
\* the name with .dtmf appended, given a string with it writes to that name,
\* given a file object uses it as it is; load_field opens exactly the path it
\* is given and never appends the extension.  No other path is touched.
C6_PathResolution ==
    /\ (call.op = "save" /\ call.f = "own") =>
          LET target == IF HasExt(call.file.name) THEN call.file.name
                        ELSE call.file.name \o EXT
          IN  /\ fh.path = target /\ fs[target].exists
              /\ \A p \in Paths \ {target} : fs[p] = call.fs0[p]
    /\ (call.op = "save" /\ call.f = "arg") => fs = call.fs0 /\ fh = NoHandle
    /\ (call.op = "load" /\ call.f = "own") =>
          fh.path = call.file.name /\ fs = call.fs0
    /\ (Finished("load") /\ call.file.kind = "str"
          /\ ~call.fs0[call.file.name].exists) =>
          result.kind = "raise" /\ result.exc.type = "FileNotFoundError"

C6_Witness ==
    /\ Finished("save") /\ result.kind = "return"
    /\ call.file = StrArg(<<"b", ".", "t">>)
    /\ fs[<<"b", ".", "t">> \o EXT].bytes = Container(Coerced(data))
    /\ ~fs[<<"b", ".", "t">>].exists

-----------------------------------------------------------------------------
(* rotation.py.  Real numbers are exact rationals <<numerator, denominator>>  *)
(* in lowest terms with a positive denominator; a complex number is its      *)
(* real part followed by its imaginary part.  Rounding is not modelled.  An  *)
(* angle is given by its cosine and sine, a rational point of the unit       *)
(* circle.                                                                   *)

AngleDen == 5       \* bound: cosines and sines are k / d for d up to this

Abs(x) == IF x < 0 THEN -x ELSE x

RECURSIVE GCD(_, _)
GCD(a, b) == IF b = 0 THEN a ELSE GCD(b, a % b)

Q(n, d) ==
    LET g == GCD(Abs(n), Abs(d))
        sg == IF d < 0 THEN -1 ELSE 1
    IN  <<(sg * n) \div g, (sg * d) \div g>>

Q0 == <<0, 1>>
Q1 == <<1, 1>>
QAdd(a, b) == Q(a[1] * b[2] + b[1] * a[2], a[2] * b[2])
QSub(a, b) == Q(a[1] * b[2] - b[1] * a[2], a[2] * b[2])
QMul(a, b) == Q(a[1] * b[1], a[2] * b[2])
QNeg(a) == <<-a[1], a[2]>>

\* a complex number: real part then imaginary part, <<n, d, n, d>>
Cx(re, im) == re \o im
Re(z) == <<z[1], z[2]>>
Im(z) == <<z[3], z[4]>>
C0 == Cx(Q0, Q0)
CAdd(z, w) == Cx(QAdd(Re(z), Re(w)), QAdd(Im(z), Im(w)))
\* complex times real
CMulR(z, r) == Cx(QMul(Re(z), r), QMul(Im(z), r))

Angles ==
    UNION {{<<Q(p[1], d), Q(p[2], d)>> :
              p \in {q \in (-d..d) \X (-d..d) : q[1] * q[1] + q[2] * q[2] = d * d}} :
           d \in 1..AngleDen}

Angle0 == <<Q1, Q0>>

\* math.cos, math.sin
cos(angle) == angle[1]
sin(angle) == angle[2]

\* a 3x3 matrix is <<row, row, row>>; the code's M[i,j] is M[i+1][j+1]
I3 == <<<<Q1, Q0, Q0>>, <<Q0, Q1, Q0>>, <<Q0, Q0, Q1>>>>

\* lines 90-91
rotation_matrix_z(angle) ==
    << <<cos(angle), QNeg(sin(angle)), Q0>>,
       <<sin(angle), cos(angle), Q0>>,
       <<Q0, Q0, Q1>> >>

\* lines 93-94
rotation_matrix_y(angle) ==
    << <<cos(angle), Q0, QNeg(sin(angle))>>,
       <<Q0, Q1, Q0>>,
       <<sin(angle), Q0, cos(angle)>> >>

\* lines 98-125: the nine entries written to R
rotation_matrix_kernel_signflip(yaw, theta, phi) ==
    LET cosyaw == cos(yaw)
        sinyaw == sin(yaw)
        costheta == cos(theta)
        sintheta == sin(theta)
        cosphi == cos(phi)
        sinphi == sin(phi)
        sinphi_sinyaw == QMul(sinphi, sinyaw)
        sinphi_cosyaw == QMul(sinphi, cosyaw)
        cosphi_sinyaw == QMul(cosphi, sinyaw)
        cosphi_cosyaw == QMul(cosphi, cosyaw)
    IN  << << QSub(QMul(costheta, cosphi_cosyaw), sinphi_sinyaw),
              QSub(QMul(QNeg(costheta), cosphi_sinyaw), sinphi_cosyaw),
              QMul(QNeg(cosphi), sintheta) >>,
           << QAdd(QMul(costheta, sinphi_cosyaw), cosphi_sinyaw),
              QSub(cosphi_cosyaw, QMul(costheta, sinphi_sinyaw)),
              QMul(QNeg(sintheta), sinphi) >>,
           << QMul(cosyaw, sintheta),
              QMul(sintheta, sinyaw),
              costheta >> >>

_rotation_matrix(yaw, theta, phi) ==
    LET cosyaw == cos(yaw)
        sinyaw == sin(yaw)
        costheta == cos(theta)
        sintheta == sin(theta)
        cosphi == cos(phi)
        sinphi == sin(phi)
        sinphi_sinyaw == QMul(sinphi, sinyaw)
        sinphi_cosyaw == QMul(sinphi, cosyaw)
        cosphi_sinyaw == QMul(cosphi, sinyaw)
        cosphi_cosyaw == QMul(cosphi, cosyaw)
    IN  << << QSub(QMul(costheta, cosphi_cosyaw), sinphi_sinyaw),
              QSub(QMul(QNeg(costheta), cosphi_sinyaw), sinphi_cosyaw),
              QMul(QNeg(cosphi), sintheta) >>,
           << QAdd(QMul(costheta, sinphi_cosyaw), cosphi_sinyaw),
              QSub(cosphi_cosyaw, QMul(costheta, sinphi_sinyaw)),
              QMul(QNeg(sintheta), sinphi) >>,
           << QMul(cosyaw, sintheta),
              QMul(QNeg(sintheta), sinyaw),
              costheta >> >>

\* lines 148-167
rotation_matrix_uniaxial_kernel_r21(theta, phi) ==
    LET costheta == cos(theta)
        sintheta == sin(theta)
        cosphi == cos(phi)
        sinphi == sin(phi)
    IN  << << QMul(costheta, cosphi), QNeg(sinphi), QMul(QNeg(cosphi), sintheta) >>,
           << QMul(costheta, sinphi), cosphi, QMul(QNeg(sintheta), sinphi) >>,
           << sintheta, QNeg(sintheta), costheta >> >>

_rotation_matrix_uniaxial(theta, phi) ==
    LET costheta == cos(theta)
        sintheta == sin(theta)
        cosphi == cos(phi)
        sinphi == sin(phi)
    IN  << << QMul(costheta, cosphi), QNeg(sinphi), QMul(QNeg(cosphi), sintheta) >>,
           << QMul(costheta, sinphi), cosphi, QMul(QNeg(sintheta), sinphi) >>,
           << sintheta, Q0, costheta >> >>

\* lines 197-204: the six entries written to out
_rotate_diagonal_tensor(R, diagonal) ==
    LET term(k, a, b) == CMulR(CMulR(diagonal[k], R[a][k]), R[b][k])
        entry(a, b) == CAdd(CAdd(term(1, a, b), term(2, a, b)), term(3, a, b))
    IN  << entry(1, 1), entry(2, 2), entry(3, 3),
           entry(1, 2), entry(1, 3), entry(2, 3) >>

\* a read tensor[i] of a 1-d array compiled without bounds checking: past
\* the end it yields whatever the memory holds
Get1(tensor, i, g) == IF i + 1 <= Len(tensor) THEN tensor[i + 1] ELSE g

\* lines 223-233
_tensor_to_matrix(tensor, g) ==
    << <<Get1(tensor, 0, g), Get1(tensor, 3, g), Get1(tensor, 4, g)>>,
       <<Get1(tensor, 3, g), Get1(tensor, 1, g), Get1(tensor, 5, g)>>,
       <<Get1(tensor, 4, g), Get1(tensor, 5, g), Get1(tensor, 2, g)>> >>

\* lines 236-246
_diagonal_tensor_to_matrix(tensor, g) ==
    << <<Get1(tensor, 0, g), C0, C0>>,
       <<C0, Get1(tensor, 1, g), C0>>,
       <<C0, C0, Get1(tensor, 2, g)>> >>

-----------------------------------------------------------------------------
(* rotation.py: arguments, argument checks, numba dispatch *)

\* an argument: a numpy array, another sequence (nested lists of real
\* numbers) or None; data is the sequence of elements (of rows when 2-d)
NdArray(dtype, shape, elems) ==
    [kind |-> "ndarray", dtype |-> dtype, shape |-> shape, data |-> elems]
List(shape, elems) ==
    [kind |-> "list", dtype |-> "object", shape |-> shape, data |-> elems]
None == [kind |-> "none", dtype |-> "", shape |-> <<>>, data |-> <<>>]

RRet(arr, same) == [kind |-> "return", exc |-> NoExc, arr |-> arr, same |-> same]
RRaise(e) == [kind |-> "raise", exc |-> e, arr |-> None, same |-> FALSE]

Ok(mat) == [ok |-> TRUE, exc |-> NoExc, mat |-> mat]
Fail(e) == [ok |-> FALSE, exc |-> e, mat |-> None]

MatrixTypeError ==
    Exc("TypeError", "Input matrix must be a numpy array of shape %s and %s dtype")

\* np.empty(shape, dtype): uninitialized memory, here holding g everywhere
np_empty(shape, dtype, g) ==
    NdArray(dtype, shape,
            IF Len(shape) = 1 THEN [i \in 1..shape[1] |-> g]
            ELSE [i \in 1..shape[1] |-> [j \in 1..shape[2] |-> g]])

\* np.array(mat, dtype = dtype) of a sequence of real numbers
np_array(mat, dtype) ==
    LET cast(x) == IF IsComplex(dtype) THEN Cx(x, Q0) ELSE x
    IN  NdArray(dtype, mat.shape,
                IF Len(mat.shape) = 1
                THEN [i \in 1..Len(mat.data) |-> cast(mat.data[i])]
                ELSE [i \in 1..Len(mat.data) |->
                        [j \in 1..Len(mat.data[i]) |-> cast(mat.data[i][j])]])

\* lines 16-18: TRUE when the check passes
_check_matrix(mat, shape, dtype) == mat.shape = shape /\ mat.dtype = dtype

\* lines 20-25; a sequence that is no array has no .shape
_output_matrix(mat, shape, dtype, g) ==
    IF mat.kind = "none" THEN Ok(np_empty(shape, dtype, g))
    ELSE IF mat.kind /= "ndarray"
    THEN Fail(Exc("AttributeError", "object has no attribute 'shape'"))
    ELSE IF ~_check_matrix(mat, shape, dtype) THEN Fail(MatrixTypeError)
    ELSE Ok(mat)

\* lines 27-32: a sequence that is no array is converted and not checked
_input_matrix(mat, shape, dtype) ==
    IF mat.kind /= "ndarray" THEN Ok(np_array(mat, dtype))
    ELSE IF ~_check_matrix(mat, shape, dtype) THEN Fail(MatrixTypeError)
    ELSE Ok(mat)

\* numba: a function compiled for explicit signatures is called only with
\* arrays of the declared element type and number of axes
Dispatch(sig, args) ==
    \A i \in 1..Len(sig) : sig[i] = <<args[i].dtype, Len(args[i].shape)>>

DispatchError == Exc("TypeError", "No matching definition for argument type(s)")

\* line 97: NFDTYPE[:,:](NFDTYPE, NFDTYPE, NFDTYPE, NFDTYPE[:,:]); array arguments
sig_rotation_matrix == << <<FDTYPE, 2>> >>
\* line 147: NFDTYPE[:,:](NFDTYPE, NFDTYPE, NFDTYPE[:,:])
sig_rotation_matrix_uniaxial == << <<FDTYPE, 2>> >>
\* line 196: NCDTYPE[:,:](NFDTYPE[:,:], NCDTYPE[:], NCDTYPE[:,:])
sig_rotate_diagonal_tensor == << <<FDTYPE, 2>>, <<CDTYPE, 1>>, <<CDTYPE, 2>> >>
\* lines 222, 235: NCDTYPE[:,:](NCDTYPE[:], NCDTYPE[:,:])
sig_tensor_to_matrix == << <<CDTYPE, 1>>, <<CDTYPE, 2>> >>

-----------------------------------------------------------------------------
(* rotation.py: the public functions.  g is what uninitialized or          *)
(* out-of-bounds memory holds.                                             *)

\* lines 35-54
rotation_matrix(yaw, theta, phi, output, g) ==
    LET o == _output_matrix(output, <<3, 3>>, FDTYPE, g)
    IN  IF ~o.ok THEN RRaise(o.exc)
        ELSE IF ~Dispatch(sig_rotation_matrix, <<o.mat>>) THEN RRaise(DispatchError)
        ELSE RRet([o.mat EXCEPT !.data = _rotation_matrix(yaw, theta, phi)],
                  output.kind /= "none")

\* lines 127-145
rotation_matrix_uniaxial(theta, phi, output, g) ==
    LET o == _output_matrix(output, <<3, 3>>, FDTYPE, g)
    IN  IF ~o.ok THEN RRaise(o.exc)
        ELSE IF ~Dispatch(sig_rotation_matrix_uniaxial, <<o.mat>>)
        THEN RRaise(DispatchError)
        ELSE RRet([o.mat EXCEPT !.data = _rotation_matrix_uniaxial(theta, phi)],
                  output.kind /= "none")

\* lines 169-194
rotate_diagonal_tensor(R, diagonal, output, g) ==
    LET o == _output_matrix(output, <<6>>, CDTYPE, g)
        d == _input_matrix(diagonal, <<3>>, CDTYPE)
        r == _input_matrix(R, <<3, 3>>, FDTYPE)
    IN  IF ~o.ok THEN RRaise(o.exc)
        ELSE IF ~d.ok THEN RRaise(d.exc)
        ELSE IF ~r.ok THEN RRaise(r.exc)
        ELSE IF ~Dispatch(sig_rotate_diagonal_tensor, <<r.mat, d.mat, o.mat>>)
        THEN RRaise(DispatchError)
        ELSE RRet([o.mat EXCEPT
                     !.data = _rotate_diagonal_tensor(r.mat.data, d.mat.data)],
                  output.kind /= "none")

\* lines 206-212
tensor_to_matrix(tensor, output, g) ==
    LET o == _output_matrix(output, <<3, 3>>, CDTYPE, g)
        t == _input_matrix(tensor, <<6>>, CDTYPE)
    IN  IF ~o.ok THEN RRaise(o.exc)
        ELSE IF ~t.ok THEN RRaise(t.exc)
        ELSE IF ~Dispatch(sig_tensor_to_matrix, <<t.mat, o.mat>>)
        THEN RRaise(DispatchError)
        ELSE RRet([o.mat EXCEPT !.data = _tensor_to_matrix(t.mat.data, g)],
                  output.kind /= "none")

\* lines 214-220
diagional_tensor_to_matrix(tensor, output, g) ==
    LET o == _output_matrix(output, <<3, 3>>, CDTYPE, g)
        t == _input_matrix(tensor, <<3>>, CDTYPE)
    IN  IF ~o.ok THEN RRaise(o.exc)
        ELSE IF ~t.ok THEN RRaise(t.exc)
        ELSE IF ~Dispatch(sig_tensor_to_matrix, <<t.mat, o.mat>>)
        THEN RRaise(DispatchError)
        ELSE RRet([o.mat EXCEPT !.data = _diagonal_tensor_to_matrix(t.mat.data, g)],
                  output.kind /= "none")

-----------------------------------------------------------------------------
(* Calls into rotation.py *)

QI(n) == <<n, 1>>
CQ(re, im) == Cx(QI(re), QI(im))

OtherFloat == IF double THEN "float32" ELSE "float64"

Const1(n, v) == [i \in 1..n |-> v]
Const2(n, m, v) == [i \in 1..n |-> [j \in 1..m |-> v]]

Garbage(dtype) == IF IsComplex(dtype) THEN {CQ(7, -9), C0} ELSE {QI(7), Q0}

\* caller-supplied output buffers for a result of the given kind
Outputs33(dtype, old) ==
    { None,
      NdArray(dtype, <<3, 3>>, Const2(3, 3, old)),
      NdArray(dtype, <<2, 2>>, Const2(2, 2, old)),
      NdArray(IF IsComplex(dtype) THEN FDTYPE ELSE OtherFloat, <<3, 3>>,
              Const2(3, 3, QI(1))),
      List(<<3, 3>>, Const2(3, 3, QI(1))) }

Outputs6 ==
    { None,
      NdArray(CDTYPE, <<6>>, Const1(6, CQ(1, 1))),
      NdArray(CDTYPE, <<3>>, Const1(3, CQ(1, 1))),
      List(<<6>>, Const1(6, QI(1))) }

SkewMatrix ==
    << <<QI(1), QI(2), Q0>>, <<Q0, QI(1), QI(3)>>, <<QI(2), Q0, QI(-1)>> >>

RInputs ==
    { NdArray(FDTYPE, <<3, 3>>, I3),
      NdArray(FDTYPE, <<3, 3>>, SkewMatrix),
      NdArray(OtherFloat, <<3, 3>>, I3),
      NdArray(FDTYPE, <<2, 2>>, Const2(2, 2, QI(1))),
      List(<<3, 3>>, I3),
      List(<<2, 2>>, Const2(2, 2, QI(1))) }

DiagInputs ==
    { NdArray(CDTYPE, <<3>>, Const1(3, Cx(Q(9, 4), Q0))),
      NdArray(CDTYPE, <<3>>, <<CQ(2, 1), CQ(3, 0), CQ(5, -2)>>),
      NdArray(CDTYPE, <<2>>, <<CQ(2, 1), CQ(3, 0)>>),
      NdArray(FDTYPE, <<3>>, <<QI(2), QI(3), QI(5)>>),
      List(<<3>>, <<QI(2), QI(3), QI(5)>>),
      List(<<2>>, <<QI(2), QI(3)>>) }

TensorInputs ==
    { NdArray(CDTYPE, <<6>>,
              <<CQ(2, 1), CQ(3, 0), CQ(5, -2), CQ(0, 1), CQ(-1, 0), CQ(4, 4)>>),
      NdArray(CDTYPE, <<3>>, <<CQ(2, 1), CQ(3, 0), CQ(5, -2)>>),
      NdArray(FDTYPE, <<6>>, <<QI(2), QI(3), QI(5), QI(1), QI(-1), QI(4)>>),
      List(<<6>>, <<QI(2), QI(3), QI(5), QI(1), QI(-1), QI(4)>>),
      List(<<3>>, <<QI(2), QI(3), QI(5)>>),
      List(<<2, 3>>, <<<<QI(2), QI(3), QI(5)>>, <<QI(1), QI(-1), QI(4)>>>>) }

\* the record of a call: arguments, the output buffer before, the outcome,
\* the caller's buffer after (written only when the call returned it)
RotCall(fn, angles, R, diagonal, tensor, output, res) ==
    [fn |-> fn, angles |-> angles, R |-> R, diagonal |-> diagonal,
     tensor |-> tensor, output |-> output, res |-> res,
     buf |-> IF res.kind = "return" /\ res.same THEN res.arr ELSE output]

NoAngles == <<Angle0, Angle0, Angle0>>

rotation_matrix_call ==
    /\ rot.fn = "none"
    /\ \E yaw \in Angles, theta \in Angles, phi \in Angles,
          output \in Outputs33(FDTYPE, QI(7)), g \in Garbage(FDTYPE) :
          rot' = RotCall("rotation_matrix", <<yaw, theta, phi>>, None, None, None,
                         output, rotation_matrix(yaw, theta, phi, output, g))
    /\ UNCHANGED <<iovars, others>>

rotation_matrix_uniaxial_call ==
    /\ rot.fn = "none"
    /\ \E theta \in Angles, phi \in Angles,
          output \in Outputs33(FDTYPE, QI(7)), g \in Garbage(FDTYPE) :
          rot' = RotCall("rotation_matrix_uniaxial", <<Angle0, theta, phi>>,
                         None, None, None, output,
                         rotation_matrix_uniaxial(theta, phi, output, g))
    /\ UNCHANGED <<iovars, others>>

\* R is an argument of the caller's or the matrix a rotation_matrix call returned
rotate_diagonal_tensor_call ==
    /\ \/ rot.fn = "none"
       \/ rot.fn \in {"rotation_matrix", "rotation_matrix_uniaxial"}
            /\ rot.res.kind = "return"
    /\ \E R \in IF rot.fn = "none" THEN RInputs ELSE {rot.res.arr},
          diagonal \in DiagInputs, output \in Outputs6, g \in Garbage(CDTYPE) :
          rot' = RotCall("rotate_diagonal_tensor", NoAngles, R, diagonal, None,
                         output, rotate_diagonal_tensor(R, diagonal, output, g))
    /\ UNCHANGED <<iovars, others>>

\* tensor is an argument of the caller's or what rotate_diagonal_tensor returned
tensor_to_matrix_call ==
    /\ \/ rot.fn = "none"
       \/ rot.fn = "rotate_diagonal_tensor" /\ rot.res.kind = "return"
    /\ \E tensor \in IF rot.fn = "none" THEN TensorInputs ELSE {rot.res.arr},
          output \in Outputs33(CDTYPE, CQ(1, 1)), g \in Garbage(CDTYPE) :
          rot' = RotCall("tensor_to_matrix", NoAngles, rot.R, rot.diagonal, tensor,
                         output, tensor_to_matrix(tensor, output, g))
    /\ UNCHANGED <<iovars, others>>

diagional_tensor_to_matrix_call ==
    /\ rot.fn = "none"
    /\ \E tensor \in DiagInputs,
          output \in Outputs33(CDTYPE, CQ(1, 1)), g \in Garbage(CDTYPE) :
          rot' = RotCall("diagional_tensor_to_matrix", NoAngles, None, None, tensor,
                         output, diagional_tensor_to_matrix(tensor, output, g))
    /\ UNCHANGED <<iovars, others>>

InitRot ==
    /\ double \in BOOLEAN
    /\ data = NoTriple
    /\ pc = "idle"
    /\ call = NoCall
    /\ result = NoResult
    /\ fs = [p \in Paths |-> Absent]
    /\ stream = NoCall.stream0
    /\ fh = NoHandle
    /\ ghost = NoGhost
    /\ rot = NoRot
    /\ kern = NoKern
    /\ wave = NoWave
    /\ conf = ConfInit

NextRot ==
    \/ rotation_matrix_call
    \/ rotation_matrix_uniaxial_call
    \/ rotate_diagonal_tensor_call
    \/ tensor_to_matrix_call
    \/ diagional_tensor_to_matrix_call

SpecRot == InitRot /\ [][NextRot]_vars

-----------------------------------------------------------------------------
(* Matrix algebra the rotation properties are stated with *)

Sum3(f(_)) == QAdd(QAdd(f(1), f(2)), f(3))
CSum3(f(_)) == CAdd(CAdd(f(1), f(2)), f(3))

Transpose(A) == [i \in 1..3 |-> [j \in 1..3 |-> A[j][i]]]

\* np.dot of real 3x3 matrices
MatMul(A, B) ==
    [i \in 1..3 |-> [j \in 1..3 |->
        LET f(k) == QMul(A[i][k], B[k][j]) IN Sum3(f)]]

Det(A) ==
    QAdd(QSub(QMul(A[1][1], QSub(QMul(A[2][2], A[3][3]), QMul(A[2][3], A[3][2]))),
              QMul(A[1][2], QSub(QMul(A[2][1], A[3][3]), QMul(A[2][3], A[3][1])))),
         QMul(A[1][3], QSub(QMul(A[2][1], A[3][2]), QMul(A[2][2], A[3][1]))))

\* np.diag(d) + 0j
Diag(d) == << <<d[1], C0, C0>>, <<C0, d[2], C0>>, <<C0, C0, d[3]>> >>

\* np.dot of a real and a complex 3x3 matrix, and of a complex and a real one
RCMatMul(A, B) ==
    [i \in 1..3 |-> [j \in 1..3 |->
        LET f(k) == CMulR(B[k][j], A[i][k]) IN CSum3(f)]]
CRMatMul(A, B) ==
    [i \in 1..3 |-> [j \in 1..3 |->
        LET f(k) == CMulR(A[i][k], B[k][j]) IN CSum3(f)]]

\* R . diag(d) . R^T by direct multiplication
Conjugated(R, d) == CRMatMul(RCMatMul(R, Diag(d)), Transpose(R))

RotReturned(fn) == rot.fn = fn /\ rot.res.kind = "return"

-----------------------------------------------------------------------------
Oblique(angle) == cos(angle) /= Q0 /\ sin(angle) /= Q0

C8_UniaxialIsYawZero ==
    RotReturned("rotation_matrix_uniaxial") =>
        \A g \in Garbage(FDTYPE) :
            LET full == rotation_matrix(Angle0, rot.angles[2], rot.angles[3], None, g)
            IN  /\ full.kind = "return"
                /\ \A i \in 1..3, j \in 1..3 :
                      rot.res.arr.data[i][j] = full.arr.data[i][j]

C8_Witness ==
    /\ RotReturned("rotation_matrix_uniaxial")
    /\ Oblique(rot.angles[2])
    /\ Oblique(rot.angles[3])

-----------------------------------------------------------------------------
\* an argument with exactly the expected shape and element type
Exact(a, shape, dtype) == a.kind = "ndarray" /\ a.shape = shape /\ a.dtype = dtype

\* the expansion of a packed tensor by tensor_to_matrix into a fresh matrix
Expanded(packed) == tensor_to_matrix(packed, None, C0)

Symmetric(M) == \A i \in 1..3, j \in 1..3 : M[i][j] = M[j][i]

(* C9: every call rotate_diagonal_tensor(R, diagonal) with a 3x3 matrix R    *)
(* and a diagonal (d0, d1, d2) returns a packed 6-vector whose expansion by  *)
(* tensor_to_matrix is symmetric and equals R . diag(d) . R^T computed by    *)
(* direct multiplication; for the identity R the packed result is            *)
(* (d0, d1, d2, 0, 0, 0) and expands to diagional_tensor_to_matrix(d).       *)
C9_RotateDiagonalTensor ==
    (/\ rot.fn = "rotate_diagonal_tensor"
     /\ Exact(rot.R, <<3, 3>>, FDTYPE)
     /\ Exact(rot.diagonal, <<3>>, CDTYPE)
     /\ rot.output.kind = "none" \/ Exact(rot.output, <<6>>, CDTYPE))
    => /\ rot.res.kind = "return"
       /\ LET d == rot.diagonal.data
              M == Expanded(rot.res.arr)
          IN  /\ M.kind = "return"
              /\ Symmetric(M.arr.data)
              /\ M.arr.data = Conjugated(rot.R.data, d)
              /\ rot.R.data = I3 =>
                    /\ rot.res.arr.data = <<d[1], d[2], d[3], C0, C0, C0>>
                    /\ M.arr = diagional_tensor_to_matrix(rot.diagonal, None, C0).arr

(* The six sums of _rotate_diagonal_tensor themselves, expanded by the       *)
(* mirroring of _tensor_to_matrix, are R . diag(d) . R^T for every 3x3 real  *)
(* R and complex diagonal d of the calls.                                    *)
C9_KernelArithmetic ==
    rot.fn = "none" =>
    \A R \in {r \in RInputs : Exact(r, <<3, 3>>, FDTYPE)}
             \cup {NdArray(FDTYPE, <<3, 3>>, _rotation_matrix(a, b, a)) :
                     a \in {Angle0, <<Q(3, 5), Q(4, 5)>>}, b \in {<<Q(-4, 5), Q(3, 5)>>}},
       diagonal \in {x \in DiagInputs : Exact(x, <<3>>, CDTYPE)} :
        LET packed == _rotate_diagonal_tensor(R.data, diagonal.data)
            M == _tensor_to_matrix(packed, C0)
        IN  /\ Symmetric(M)
            /\ M = Conjugated(R.data, diagonal.data)
            /\ R.data = I3 => M = _diagonal_tensor_to_matrix(diagonal.data, C0)

\* the arguments of the recorded call with the shape and element type the
\* function expects of each
Expected ==
    CASE rot.fn = "rotate_diagonal_tensor" ->
            << <<rot.R, <<3, 3>>, FDTYPE>>, <<rot.diagonal, <<3>>, CDTYPE>> >>
      [] rot.fn = "tensor_to_matrix" -> << <<rot.tensor, <<6>>, CDTYPE>> >>
      [] rot.fn = "diagional_tensor_to_matrix" -> << <<rot.tensor, <<3>>, CDTYPE>> >>
      [] OTHER -> << >>

ExpectedOutput ==
    CASE rot.fn = "rotate_diagonal_tensor" -> <<rot.output, <<6>>, CDTYPE>>
      [] rot.fn \in {"rotation_matrix", "rotation_matrix_uniaxial"} ->
            <<rot.output, <<3, 3>>, FDTYPE>>
      [] OTHER -> <<rot.output, <<3, 3>>, CDTYPE>>

\* an array of another shape or element type, or another sequence of
\* another shape
Mismatch(e) == e[1].shape /= e[2] \/ (e[1].kind = "ndarray" /\ e[1].dtype /= e[3])

TypeMismatchRaised ==
    /\ rot.res.kind = "raise"
    /\ rot.res.exc.type = "TypeError"
    /\ rot.buf = rot.output

(* C10: every call of the five rotation functions with an input argument or  *)
(* a supplied output buffer of another shape or element type than expected   *)
(* raises TypeError, for an array and for another sequence alike, and leaves *)
(* the output buffer as it was; a valid supplied buffer is the object the    *)
(* call returns.                                                             *)
C10_StrictValidation ==
    rot.fn /= "none" =>
        /\ (\E i \in 1..Len(Expected) : Mismatch(Expected[i])) => TypeMismatchRaised
        /\ (rot.output.kind /= "none" /\ Mismatch(ExpectedOutput)) => TypeMismatchRaised
        /\ (rot.res.kind = "return" /\ rot.output.kind /= "none") =>
              /\ Exact(ExpectedOutput[1], ExpectedOutput[2], ExpectedOutput[3])
              /\ rot.res.same

(* What of C10 holds: when the output is None or an array, an array         *)
(* argument or buffer of another shape or element type always raises        *)
(* TypeError and leaves the buffer as it was.                               *)
C10_ArraysChecked ==
    (rot.fn /= "none" /\ rot.output.kind /= "list") =>
        /\ (\E i \in 1..Len(Expected) :
               Expected[i][1].kind = "ndarray" /\ Mismatch(Expected[i]))
           => TypeMismatchRaised
        /\ (rot.output.kind = "ndarray" /\ Mismatch(ExpectedOutput)) => TypeMismatchRaised
        /\ (rot.res.kind = "return" /\ rot.output.kind /= "none") =>
              /\ Exact(ExpectedOutput[1], ExpectedOutput[2], ExpectedOutput[3])
              /\ rot.res.same

-----------------------------------------------------------------------------
(* field.py: the kernels _field2intensity, _field2specter and               *)
(* _field2spectersum and the gufuncs that call them.  A field is an array   *)
(* of complex numbers, field[n, i, c, j, k] being data[n+1][i+1][c+1][j+1]  *)
(* [k+1]; an output is an array of real numbers.                            *)

MaxLayers == 2          \* length of the outer (layer) axis, 0..MaxLayers
MaxWavelengths == 2     \* number of wavelengths
MaxHeight == 2          \* pixels along the height
MaxWidth == 1           \* pixels along the width
MaxSumElems == 2        \* elements of the output of a field2spectersum call

\* the value stored at one index of a test field
FieldValue(seed, n, i, c, j, k) ==
    CQ(((seed + 3 * n + 5 * i + 7 * c + 2 * j + k) % 5) - 2,
       ((2 * seed + n + 2 * i + 3 * c + 5 * j + 7 * k) % 3) - 1)

\* a field of shape [W, 4, H, Wd], layer n of a stack
Field4(seed, n, W, H, Wd) ==
    NdArray(CDTYPE, <<W, 4, H, Wd>>,
            [i \in 1..W |-> [c \in 1..4 |-> [j \in 1..H |-> [k \in 1..Wd |->
                FieldValue(seed, n, i, c, j, k)]]]])

\* a field of shape [L, W, 4, H, Wd]
Field5(seed, L, W, H, Wd) ==
    NdArray(CDTYPE, <<L, W, 4, H, Wd>>,
            [n \in 1..L |-> Field4(seed, n, W, H, Wd).data])

\* an output buffer of the given 3-d shape holding g everywhere
Buffer3(shape, g) ==
    NdArray(FDTYPE, shape,
            [a \in 1..shape[1] |-> [b \in 1..shape[2] |-> [c \in 1..shape[3] |-> g]]])

\* lines 185-187: field is [4, H, Wd]; the value stored in out[j, k]
_field2intensity_tmp(field, j, k) ==
    LET tmp1 == QAdd(QMul(Re(field[1][j + 1][k + 1]), Re(field[2][j + 1][k + 1])),
                     QMul(Im(field[1][j + 1][k + 1]), Im(field[2][j + 1][k + 1])))
        tmp2 == QAdd(QMul(Re(field[3][j + 1][k + 1]), Re(field[4][j + 1][k + 1])),
                     QMul(Im(field[3][j + 1][k + 1]), Im(field[4][j + 1][k + 1])))
    IN  QSub(tmp1, tmp2)

\* lines 181-187, 189-208: field2intensity of a field [4, H, Wd]
field2intensity(field) ==
    NdArray(FDTYPE, <<field.shape[2], field.shape[3]>>,
            [j \in 1..field.shape[2] |-> [k \in 1..field.shape[3] |->
                _field2intensity_tmp(field.data, j - 1, k - 1)]])

\* lines 215-217 with tmp1 and tmp2 added instead of subtracted
field2specter_tmp_sum(field, i, j, k) ==
    LET tmp1 == QAdd(QMul(Re(field[i + 1][1][j + 1][k + 1]), Re(field[i + 1][2][j + 1][k + 1])),
                     QMul(Im(field[i + 1][1][j + 1][k + 1]), Im(field[i + 1][2][j + 1][k + 1])))
        tmp2 == QAdd(QMul(Re(field[i + 1][3][j + 1][k + 1]), Re(field[i + 1][4][j + 1][k + 1])),
                     QMul(Im(field[i + 1][3][j + 1][k + 1]), Im(field[i + 1][4][j + 1][k + 1])))
    IN  QAdd(tmp1, tmp2)

\* lines 215-217: the value stored in out[j, k, i]
_field2specter_tmp(field, i, j, k) ==
    LET tmp1 == QAdd(QMul(Re(field[i + 1][1][j + 1][k + 1]), Re(field[i + 1][2][j + 1][k + 1])),
                     QMul(Im(field[i + 1][1][j + 1][k + 1]), Im(field[i + 1][2][j + 1][k + 1])))
        tmp2 == QAdd(QMul(Re(field[i + 1][3][j + 1][k + 1]), Re(field[i + 1][4][j + 1][k + 1])),
                     QMul(Im(field[i + 1][3][j + 1][k + 1]), Im(field[i + 1][4][j + 1][k + 1])))
    IN  QSub(tmp1, tmp2)

\* lines 225-226: tmp1 - tmp2 of layer n
_field2spectersum_tmp(field, n, i, j, k) ==
    LET f == field[n + 1][i + 1]
        tmp1 == QAdd(QMul(Re(f[1][j + 1][k + 1]), Re(f[2][j + 1][k + 1])),
                     QMul(Im(f[1][j + 1][k + 1]), Im(f[2][j + 1][k + 1])))
        tmp2 == QAdd(QMul(Re(f[3][j + 1][k + 1]), Re(f[4][j + 1][k + 1])),
                     QMul(Im(f[3][j + 1][k + 1]), Im(f[4][j + 1][k + 1])))
    IN  QSub(tmp1, tmp2)

\* out[j, k, i] and the array with out[j, k, i] = v
Get3(out, j, k, i) == out[j + 1][k + 1][i + 1]
Set3(out, j, k, i, v) == [out EXCEPT ![j + 1][k + 1][i + 1] = v]

-----------------------------------------------------------------------------
(* The kernels as they run.  The outer loop of a kernel is a prange: each   *)
(* of its indices is run by a worker of its own, which runs the inner loops *)
(* in order.  With NUMBA_PARALLEL false prange is range (lines 18-19) and   *)
(* a worker starts when the workers before it are done; with it true the    *)
(* workers interleave in any way, which covers every number of threads and  *)
(* every chunking.  A gufunc called without an output allocates one, which  *)
(* holds whatever the memory held.                                          *)

FieldSeeds == {0, 1}

IdleKern(parallel) == [fn |-> "none", NUMBA_PARALLEL |-> parallel]

\* the frame of a gufunc call: pos[w] counts the inner iterations worker w
\* has completed, tmp[w] holds the element a worker has loaded for +=,
\* writers records which workers stored to each element of out, exc is the
\* exception the call raised (no line of the kernels or gufuncs raises one)
KernFrame(fn, parallel, field, out, nworkers, niter) ==
    [fn |-> fn, NUMBA_PARALLEL |-> parallel, field |-> field, out |-> out,
     out0 |-> out, nworkers |-> nworkers, niter |-> niter,
     pos |-> [w \in 1..nworkers |-> 0], tmp |-> [w \in 1..nworkers |-> <<>>],
     writers |-> [a \in 1..out.shape[1] |-> [b \in 1..out.shape[2] |->
                    [c \in 1..out.shape[3] |-> {}]]],
     exc |-> NoExc, done |-> FALSE]

Running(fn, w) ==
    /\ kern.fn = fn
    /\ ~kern.done
    /\ w < kern.nworkers
    /\ kern.pos[w + 1] < kern.niter

\* lines 18-19, 212, 221: prange, or range when NUMBA_PARALLEL is false
prange(w) ==
    kern.NUMBA_PARALLEL \/ \A v \in 0..(w - 1) : kern.pos[v + 1] = kern.niter

Stored(j, k, i, v, w) ==
    [kern EXCEPT !.out.data = Set3(@, j, k, i, v),
                 !.writers = Set3(@, j, k, i, Get3(@, j, k, i) \cup {w}),
                 !.pos[w + 1] = @ + 1,
                 !.tmp[w + 1] = <<>>]

\* lines 232-251: field2specter(field) on a field [W, 4, H, Wd]
field2specter_call ==
    /\ kern.fn = "none"
    /\ \E seed \in FieldSeeds, W \in 1..MaxWavelengths, H \in 1..MaxHeight,
          Wd \in 1..MaxWidth, g \in Garbage(FDTYPE) :
          kern' = KernFrame("field2specter", kern.NUMBA_PARALLEL,
                            Field4(seed, 0, W, H, Wd), Buffer3(<<H, Wd, W>>, g),
                            H, W * Wd)
    /\ UNCHANGED <<iovars, rot, wave, conf>>

\* lines 212-217: one iteration of the loops over i and k, for j = w
_field2specter_step(w) ==
    /\ Running("field2specter", w)
    /\ prange(w)
    /\ LET t == kern.pos[w + 1]
           Wd == kern.field.shape[4]
           i == t \div Wd
           k == t % Wd
       IN  kern' = Stored(w, k, i, _field2specter_tmp(kern.field.data, i, w, k), w)
    /\ UNCHANGED <<iovars, rot, wave, conf>>

\* lines 253-255: field2spectersum(field) on a field [L, W, 4, H, Wd]
field2spectersum_call ==
    /\ kern.fn = "none"
    /\ \E seed \in FieldSeeds, L \in 0..MaxLayers, W \in 1..MaxWavelengths,
          H \in 1..MaxHeight, Wd \in 1..MaxWidth, g \in Garbage(FDTYPE) :
          /\ H * W * Wd <= MaxSumElems
          /\ kern' = KernFrame("field2spectersum", kern.NUMBA_PARALLEL,
                               Field5(seed, L, W, H, Wd), Buffer3(<<H, Wd, W>>, g),
                               L, H * W * Wd)
    /\ UNCHANGED <<iovars, rot, wave, conf>>

\* the indices j, i, k of iteration t of the loops of lines 222-224
SumIndex(t) ==
    LET W == kern.field.shape[2]
        Wd == kern.field.shape[5]
    IN  [j |-> t \div (W * Wd), i |-> (t \div Wd) % W, k |-> t % Wd]

\* line 230, first half of +=: layer n = w > 0 reads out[j, k, i]
_field2spectersum_load(w) ==
    /\ Running("field2spectersum", w)
    /\ prange(w)
    /\ w /= 0
    /\ kern.tmp[w + 1] = <<>>
    /\ LET x == SumIndex(kern.pos[w + 1])
       IN  kern' = [kern EXCEPT !.tmp[w + 1] = <<Get3(kern.out.data, x.j, x.k, x.i)>>]
    /\ UNCHANGED <<iovars, rot, wave, conf>>

\* lines 227-230: layer 0 stores tmp1 - tmp2, another layer stores what it
\* read plus tmp1 - tmp2
_field2spectersum_store(w) ==
    /\ Running("field2spectersum", w)
    /\ prange(w)
    /\ w = 0 \/ kern.tmp[w + 1] /= <<>>
    /\ LET x == SumIndex(kern.pos[w + 1])
           v == _field2spectersum_tmp(kern.field.data, w, x.i, x.j, x.k)
       IN  kern' = Stored(x.j, x.k, x.i,
                          IF w = 0 THEN v ELSE QAdd(kern.tmp[w + 1][1], v), w)
    /\ UNCHANGED <<iovars, rot, wave, conf>>

\* the kernel has run every iteration: the gufunc returns out
gufunc_return ==
    /\ kern.fn /= "none"
    /\ ~kern.done
    /\ \A w \in 1..kern.nworkers : kern.pos[w] = kern.niter
    /\ kern' = [kern EXCEPT !.done = TRUE]
    /\ UNCHANGED <<iovars, rot, wave, conf>>

InitKernel ==
    /\ double \in BOOLEAN
    /\ data = NoTriple
    /\ pc = "idle"
    /\ call = NoCall
    /\ result = NoResult
    /\ fs = [p \in Paths |-> Absent]
    /\ stream = NoCall.stream0
    /\ fh = NoHandle
    /\ ghost = NoGhost
    /\ rot = NoRot
    /\ kern \in {IdleKern(b) : b \in BOOLEAN}
    /\ wave = NoWave
    /\ conf = ConfInit

NextKernel ==
    \/ field2specter_call
    \/ \E w \in 0..(MaxHeight - 1) : _field2specter_step(w)
    \/ field2spectersum_call
    \/ \E w \in 0..(MaxLayers - 1) : _field2spectersum_load(w)
    \/ \E w \in 0..(MaxLayers - 1) : _field2spectersum_store(w)
    \/ gufunc_return

SpecKernel == InitKernel /\ [][NextKernel]_vars

-----------------------------------------------------------------------------
(* Properties of the kernels *)

KernReturned(fn) == kern.fn = fn /\ kern.done

\* field[i] of a field [W, 4, H, Wd]: the array [4, H, Wd] of wavelength i
Wavelength(field, i) ==
    NdArray(field.dtype, <<4, field.shape[3], field.shape[4]>>, field.data[i + 1])

(* C11: field2specter of a field of shape [W, 4, H, Wd] returns an array of *)
(* shape [H, Wd, W] with out[j, k, i] = Re(f0) Re(f1) + Im(f0) Im(f1) -     *)
(* (Re(f2) Re(f3) + Im(f2) Im(f3)) for fc = field[i, c, j, k], which is     *)
(* field2intensity(field[i])[j, k].                                         *)
C11_Specter ==
    KernReturned("field2specter") =>
        LET W == kern.field.shape[1]
            H == kern.field.shape[3]
            Wd == kern.field.shape[4]
            f(c, i, j, k) == kern.field.data[i + 1][c + 1][j + 1][k + 1]
        IN  /\ kern.out.shape = <<H, Wd, W>>
            /\ Len(kern.out.data) = H
            /\ \A i \in 0..(W - 1), j \in 0..(H - 1), k \in 0..(Wd - 1) :
                  /\ Get3(kern.out.data, j, k, i) =
                        QSub(QAdd(QMul(Re(f(0, i, j, k)), Re(f(1, i, j, k))),
                                  QMul(Im(f(0, i, j, k)), Im(f(1, i, j, k)))),
                             QAdd(QMul(Re(f(2, i, j, k)), Re(f(3, i, j, k))),
                                  QMul(Im(f(2, i, j, k)), Im(f(3, i, j, k)))))
                  /\ Get3(kern.out.data, j, k, i) =
                        field2intensity(Wavelength(kern.field, i)).data[j + 1][k + 1]

\* a returned specter of several wavelengths and rows whose values differ
\* from what the buffer held and from each other
C11_Witness ==
    /\ KernReturned("field2specter")
    /\ kern.field.shape[1] >= 2
    /\ kern.field.shape[3] >= 2
    /\ Get3(kern.out.data, 0, 0, 1) /= Get3(kern.out.data, 1, 0, 0)
    /\ Get3(kern.out.data, 0, 0, 0) /= Get3(kern.out0.data, 0, 0, 0)

\* the sum over the layers n = 0..L-1 of the field2specter value of layer n
\* at out[j, k, i]
RECURSIVE SumLayers(_, _, _, _, _)
SumLayers(field, L, i, j, k) ==
    IF L = 0 THEN Q0
    ELSE QAdd(SumLayers(field, L - 1, i, j, k),
              _field2specter_tmp(field[L], i, j, k))

LayerSums ==
    LET L == kern.field.shape[1]
        W == kern.field.shape[2]
        H == kern.field.shape[4]
        Wd == kern.field.shape[5]
    IN  /\ kern.out.shape = <<H, Wd, W>>
        /\ \A i \in 0..(W - 1), j \in 0..(H - 1), k \in 0..(Wd - 1) :
              Get3(kern.out.data, j, k, i) = SumLayers(kern.field.data, L, i, j, k)

(* C12: field2spectersum of a field [L, W, 4, H, Wd] with L >= 1 returns,   *)
(* at every pixel and wavelength, the sum over the layers of the            *)
(* field2specter values of the layers, whatever the output buffer held      *)
(* before.                                                                  *)
C12_SpecterSum ==
    (KernReturned("field2spectersum") /\ kern.field.shape[1] >= 1) => LayerSums

(* What of C12 holds: the same when the layers run one after the other      *)
(* (NUMBA_PARALLEL false).                                                  *)
C12_SequentialSum ==
    (/\ KernReturned("field2spectersum")
     /\ kern.field.shape[1] >= 1
     /\ ~kern.NUMBA_PARALLEL) => LayerSums

C12_SequentialWitness ==
    /\ KernReturned("field2spectersum")
    /\ kern.field.shape[1] >= 2
    /\ ~kern.NUMBA_PARALLEL
    /\ Get3(kern.out0.data, 0, 0, 0) /= Q0
    /\ Get3(kern.out.data, 0, 0, 0) /=
          _field2specter_tmp(kern.field.data[1], 0, 0, 0)

\* no element of out was stored to by two workers
DisjointWrites ==
    \A a \in 1..Len(kern.writers) : \A b \in 1..Len(kern.writers[a]) :
        \A c \in 1..Len(kern.writers[a][b]) :
            Cardinality(kern.writers[a][b][c]) <= 1

\* what the sequential path leaves in out
SequentialResult ==
    IF kern.fn = "field2specter"
    THEN \A i \in 0..(kern.field.shape[1] - 1), j \in 0..(kern.field.shape[3] - 1),
            k \in 0..(kern.field.shape[4] - 1) :
            Get3(kern.out.data, j, k, i) = _field2specter_tmp(kern.field.data, i, j, k)
    ELSE IF kern.field.shape[1] = 0 THEN kern.out = kern.out0
    ELSE LayerSums

(* C13: with NUMBA_PARALLEL true the workers of _field2specter and of       *)
(* _field2spectersum store to pairwise disjoint elements of out, and under  *)
(* every interleaving the returned out is what the sequential path returns. *)
C13_ParallelDisjoint ==
    (kern.fn /= "none" /\ kern.NUMBA_PARALLEL) =>
        /\ DisjointWrites
        /\ kern.done => SequentialResult

(* What of C13 holds: the sequential path returns SequentialResult, and the *)
(* workers of _field2specter are disjoint and return it under every         *)
(* interleaving.                                                            *)
C13_SpecterDisjoint ==
    /\ (kern.fn /= "none" /\ kern.done /\ ~kern.NUMBA_PARALLEL) => SequentialResult
    /\ (kern.fn = "field2specter" /\ kern.NUMBA_PARALLEL) =>
          /\ DisjointWrites
          /\ kern.done => SequentialResult

(* C17: field2spectersum of a field with an empty layer axis (L = 0) is     *)
(* rejected with an error and never returns an output no layer has stored   *)
(* to.                                                                      *)
C17_EmptyRejected ==
    (kern.fn = "field2spectersum" /\ kern.field.shape[1] = 0) =>
        /\ kern.exc /= NoExc
        /\ ~kern.done

-----------------------------------------------------------------------------
(* field.py: waves2field.  A wave amplitude divided by nrays**0.5 is kept   *)
(* exactly, as the pair <<z, m>> standing for z / sqrt(m) with m free of    *)
(* square factors; zero is <<C0, 1>>.  A plane is the [height, width] array *)
(* of one wave; beta is given by its shape, <<>> or <<len(beta)>>.          *)

MaxBeta == 2            \* directions of incidence of a 1-d beta

CNeg(z) == Cx(QNeg(Re(z)), QNeg(Im(z)))
CMul(z, w) ==
    Cx(QSub(QMul(Re(z), Re(w)), QMul(Im(z), Im(w))),
       QAdd(QMul(Re(z), Im(w)), QMul(Im(z), Re(w))))

\* the largest k with k * k dividing m
SquarePart(m) == CHOOSE k \in 1..m : m % (k * k) = 0 /\ \A l \in (k + 1)..m : m % (l * l) /= 0

\* z / m ** 0.5
DivSqrt(z, m) ==
    IF z = C0 THEN <<C0, 1>>
    ELSE LET k == SquarePart(m) IN <<CMulR(z, Q(1, k)), m \div (k * k)>>

SZero == <<C0, 1>>
SNeg(x) == <<CNeg(x[1]), x[2]>>
SMul(x, c) == IF CMul(x[1], c) = C0 THEN SZero ELSE <<CMul(x[1], c), x[2]>>

PlaneMap(plane, f(_)) ==
    [j \in 1..Len(plane) |-> [k \in 1..Len(plane[j]) |-> f(plane[j][k])]]

\* lines 73-77 with the polarization count left out
nrays_single(betashape, jones) ==
    IF Len(betashape) = 1 THEN betashape[1] * 1 ELSE 1

\* lines 73-77
nrays(betashape, jones) ==
    LET nrays1 == IF jones = <<>> THEN 2 ELSE 1
    IN  IF Len(betashape) = 1 THEN betashape[1] * nrays1 ELSE nrays1

\* data[p, ..., c, :, :] = planes, for fv of shape [2, nk, 4, H, Wd]
SetBranch(fv, p, c, planes) ==
    [fv EXCEPT ![p + 1] = [w \in 1..Len(@) |-> [@[w] EXCEPT ![c + 1] = planes[w]]]]

\* data[..., c, :, :] = planes, for fv of shape [nk, 4, H, Wd]
SetComponent(fv, c, planes) ==
    [w \in 1..Len(fv) |-> [fv[w] EXCEPT ![c + 1] = planes[w]]]

\* lines 90-94 and 103-107: wv is [nk, H, Wd]
FillUnpolarized(fv, wv) ==
    LET neg(x) == SNeg(x)
        d0 == SetBranch(fv, 0, 0, wv)
        d1 == SetBranch(d0, 0, 1, wv)
        d2 == SetBranch(d1, 1, 2, wv)
    IN  SetBranch(d2, 1, 3, [w \in 1..Len(wv) |-> PlaneMap(wv[w], neg)])

\* lines 96-99 and 109-112
FillJones(fv, wv, jones) ==
    LET c == jones[1]
        sn == jones[2]
        timesc(x) == SMul(x, c)
        timess(x) == SMul(x, sn)
        negtimess(x) == SMul(SNeg(x), sn)
        d0 == SetComponent(fv, 0, [w \in 1..Len(wv) |-> PlaneMap(wv[w], timesc)])
        d1 == SetComponent(d0, 1, [w \in 1..Len(wv) |-> PlaneMap(wv[w], timesc)])
        d2 == SetComponent(d1, 2, [w \in 1..Len(wv) |-> PlaneMap(wv[w], timess)])
    IN  SetComponent(d2, 3, [w \in 1..Len(wv) |-> PlaneMap(wv[w], negtimess)])

\* np.zeros([nk, 4, H, Wd]) and np.zeros([2, nk, 4, H, Wd])
Zeros4(nk, H, Wd) ==
    [w \in 1..nk |-> [c \in 1..4 |-> [j \in 1..H |-> [k \in 1..Wd |-> SZero]]]]
Zeros5(nk, H, Wd) == [p \in 1..2 |-> Zeros4(nk, H, Wd)]

\* lines 68-113: the array fieldv handed to diffracted_field.  waves is
\* [nk, H, Wd] for a scalar beta and [nb, nk, H, Wd] for a 1-d beta, k0 is
\* 1-d of length nk, jones is <<>> for None or <<c, s>>
waves2field(waves, betashape, nk, jones) ==
    LET n == nrays(betashape, jones)
        norm(x) == DivSqrt(x, n)
        H == waves.shape[Len(waves.shape) - 1]
        Wd == waves.shape[Len(waves.shape)]
        zeros == IF jones = <<>> THEN Zeros5(nk, H, Wd) ELSE Zeros4(nk, H, Wd)
        branch == IF jones = <<>> THEN <<2>> ELSE <<>>
        normed(wv) == [w \in 1..Len(wv) |-> PlaneMap(wv[w], norm)]
        fill(wv) == IF jones = <<>> THEN FillUnpolarized(zeros, normed(wv))
                    ELSE FillJones(zeros, normed(wv), jones)
    IN  NdArray(CDTYPE, betashape \o branch \o <<nk, 4, H, Wd>>,
                IF Len(betashape) = 1
                THEN [i \in 1..betashape[1] |-> fill(waves.data[i])]
                ELSE fill(waves.data))

\* the scalar waves handed to waves2field
WaveValue(seed, i, w, j, k) ==
    CQ(1 + ((seed + 2 * i + 3 * w + j + 5 * k) % 4), ((seed + i + 2 * w + 3 * j + k) % 3) - 1)

WavePlanes(seed, i, nk, H, Wd) ==
    [w \in 1..nk |-> [j \in 1..H |-> [k \in 1..Wd |-> WaveValue(seed, i, w, j, k)]]]

Waves(seed, betashape, nk, H, Wd) ==
    NdArray(CDTYPE, betashape \o <<nk, H, Wd>>,
            IF Len(betashape) = 1
            THEN [i \in 1..betashape[1] |-> WavePlanes(seed, i, nk, H, Wd)]
            ELSE WavePlanes(seed, 0, nk, H, Wd))

BetaShapes == {<<>>} \cup {<<nb>> : nb \in 1..MaxBeta}

JonesVectors ==
    { <<>>, <<CQ(1, 0), C0>>, <<C0, CQ(1, 0)>>,
      <<Cx(Q(3, 5), Q0), Cx(Q(4, 5), Q0)>>, <<Cx(Q(3, 5), Q0), Cx(Q0, Q(4, 5))>> }

\* lines 68-114: a call of waves2field, up to the call of diffracted_field
waves2field_call ==
    /\ wave.fn = "none"
    /\ \E seed \in FieldSeeds, betashape \in BetaShapes, nk \in 1..MaxWavelengths,
          H \in 1..MaxHeight, Wd \in 1..MaxWidth, jones \in JonesVectors :
          LET waves == Waves(seed, betashape, nk, H, Wd)
          IN  wave' = [fn |-> "waves2field", waves |-> waves, betashape |-> betashape,
                       nk |-> nk, jones |-> jones,
                       fieldv |-> waves2field(waves, betashape, nk, jones)]
    /\ UNCHANGED <<iovars, rot, kern, conf>>

InitWaves ==
    /\ double \in BOOLEAN
    /\ data = NoTriple
    /\ pc = "idle"
    /\ call = NoCall
    /\ result = NoResult
    /\ fs = [p \in Paths |-> Absent]
    /\ stream = NoCall.stream0
    /\ fh = NoHandle
    /\ ghost = NoGhost
    /\ rot = NoRot
    /\ kern = NoKern
    /\ wave = NoWave
    /\ conf = ConfInit

NextWaves == waves2field_call

SpecWaves == InitWaves /\ [][NextWaves]_vars

-----------------------------------------------------------------------------
\* the slices of fieldv, one for each direction of incidence, with the wave
\* planes each must be built from
Slices ==
    IF Len(wave.betashape) = 1
    THEN {<<wave.fieldv.data[i], wave.waves.data[i]>> : i \in 1..wave.betashape[1]}
    ELSE {<<wave.fieldv.data, wave.waves.data>>}

(* C14: the field waves2field hands to diffracted_field.  Without a Jones   *)
(* vector it has two polarization branches: branch 0 holds the normalized   *)
(* wave in components 0 and 1 and zero in 2 and 3, branch 1 holds it in     *)
(* component 2, its negation in 3 and zero in 0 and 1, with nrays = 2 for a *)
(* scalar beta and 2 len(beta) for a 1-d beta.  With a Jones vector (c, s)  *)
(* it has one branch with components wave times c, c, s, -s and nrays = 1   *)
(* or len(beta).  The wave is normalized by 1 / sqrt(nrays) and the slice   *)
(* of direction i is built from waves[i] only.                              *)
C14_FieldLayout ==
    wave.fn = "waves2field" =>
        LET polarized == wave.jones /= <<>>
            nb == IF Len(wave.betashape) = 1 THEN wave.betashape[1] ELSE 1
            nr == IF polarized THEN nb ELSE 2 * nb
            H == wave.waves.shape[Len(wave.waves.shape) - 1]
            Wd == wave.waves.shape[Len(wave.waves.shape)]
        IN  /\ wave.fieldv.shape =
                  wave.betashape \o (IF polarized THEN <<>> ELSE <<2>>)
                                 \o <<wave.nk, 4, H, Wd>>
            /\ \A sl \in Slices :
                 \A w \in 1..wave.nk, j \in 1..H, k \in 1..Wd :
                    LET N == DivSqrt(sl[2][w][j][k], nr)
                        f(p, c) == sl[1][p + 1][w][c + 1][j][k]
                        h(c) == sl[1][w][c + 1][j][k]
                    IN  IF polarized
                        THEN /\ h(0) = SMul(N, wave.jones[1])
                             /\ h(1) = SMul(N, wave.jones[1])
                             /\ h(2) = SMul(N, wave.jones[2])
                             /\ h(3) = SMul(N, CNeg(wave.jones[2]))
                        ELSE /\ f(0, 0) = N /\ f(0, 1) = N
                             /\ f(0, 2) = SZero /\ f(0, 3) = SZero
                             /\ f(1, 0) = SZero /\ f(1, 1) = SZero
                             /\ f(1, 2) = N /\ f(1, 3) = SNeg(N)

\* an unpolarized field of two directions built from different waves
C14_Witness ==
    /\ wave.fn = "waves2field"
    /\ wave.jones = <<>>
    /\ wave.betashape = <<2>>
    /\ wave.waves.data[1] /= wave.waves.data[2]
    /\ wave.fieldv.data[1] /= wave.fieldv.data[2]
    /\ wave.fieldv.data[2][2][1][4][1][1] /= SZero

-----------------------------------------------------------------------------
(* conf.py: cached_function, clear_cache, set_cache.  conf.cache is          *)
(* DTMMConfig.cache, conf.cached[f] is the dict _cache[f] as a set of        *)
(* <<key, result>> entries, conf.ncalls counts the runs of the decorated     *)
(* functions; a result is an array object, new at every run (id).            *)

MaxInvocations == 3     \* runs of the decorated functions in one session

CacheArgs == {1, 2}
\* the keyword argument cache of a call: not given, True or False
CacheKeywords == {"absent", "True", "False"}

\* what the decorated function f computes
Underlying(f, arg) == IF f = "f1" THEN 10 * arg + 1 ELSE 10 * arg + 2
\* f1 declares a keyword argument cache, f2 declares none
AcceptsKeyword(f) == f = "f1"

ArrayResult(val, id, writeable) == [val |-> val, id |-> id, writeable |-> writeable]
NoArrayResult == ArrayResult(0, 0, FALSE)

\* the argument of clear_cache: None, a function that was decorated, or the
\* wrapper the decorator returned for it (the object callers call)
Decorated(f) == <<"function", f>>
Wrapper(f) == <<"wrapper", f>>
NoFunc == <<"None", "">>

\* the record of the last call into conf.py
ConfCall(op, f, arg, kw, lookup, invoked, res, exc) ==
    [op |-> op, f |-> f, arg |-> arg, kw |-> kw, flag |-> conf.cache,
     lookup |-> lookup, invoked |-> invoked, res |-> res, exc |-> exc]

\* line 179: the keyword is popped only when DTMMConfig.cache is 0
cache_enabled(kw) == conf.cache /= 0 \/ kw /= "False"

\* line 182: the positional argument, then the values of the keywords left
\* in kwargs
CacheKey(arg, kw) ==
    IF conf.cache /= 0 /\ kw /= "absent" THEN <<arg, kw>> ELSE <<arg, "-">>

\* lines 190-191
store(func_cache, key, res) == {<<key, res>>}

\* f(*args, **kwargs): the keywords still in kwargs reach f
PassesKeyword(kw) == conf.cache /= 0 /\ kw /= "absent"

\* lines 178-194: the wrapper _f of the decorated function f
cached_function_call(f, arg, kw) ==
    LET key == CacheKey(arg, kw)
        func_cache == conf.cached[f]
        found == {e \in func_cache : e[1] = key}
        id == conf.ncalls + 1
        unexpected == Exc("TypeError", "got an unexpected keyword argument 'cache'")
    IN  IF cache_enabled(kw)
        THEN IF found /= {}
             THEN [conf EXCEPT !.last = ConfCall("call", Wrapper(f), arg, kw, "hit", FALSE,
                                                 (CHOOSE e \in found : TRUE)[2], NoExc)]
             ELSE IF PassesKeyword(kw) /\ ~AcceptsKeyword(f)
             THEN [conf EXCEPT !.last = ConfCall("call", Wrapper(f), arg, kw, "miss", FALSE,
                                                 NoArrayResult, unexpected)]
             ELSE LET res == ArrayResult(Underlying(f, arg), id, FALSE)
                  IN  [conf EXCEPT !.cached[f] = store(func_cache, key, res),
                                   !.ncalls = id,
                                   !.last = ConfCall("call", Wrapper(f), arg, kw,
                                                     "miss", TRUE, res, NoExc)]
        ELSE [conf EXCEPT !.ncalls = id,
                          !.last = ConfCall("call", Wrapper(f), arg, kw, "none", TRUE,
                                            ArrayResult(Underlying(f, arg), id, TRUE),
                                            NoExc)]

\* lines 124-137: _cache is keyed by the decorated functions (line 175)
clear_cache(func) ==
    IF func /= NoFunc
    THEN IF func[1] = "function"
         THEN [conf EXCEPT !.cached[func[2]] = {},
                           !.last = ConfCall("clear_cache", func, 0, "absent", "none",
                                             FALSE, NoArrayResult, NoExc)]
         ELSE [conf EXCEPT !.last = ConfCall("clear_cache", func, 0, "absent", "none",
                                             FALSE, NoArrayResult,
                                             Exc("KeyError", "_cache[func]"))]
    ELSE [conf EXCEPT !.cached = [f \in CachedFuncs |-> {}],
                      !.last = ConfCall("clear_cache", func, 0, "absent", "none",
                                        FALSE, NoArrayResult, NoExc)]

\* lines 313-319
set_cache(level) ==
    [conf EXCEPT !.cache = IF level > 0 THEN level ELSE 0,
                 !.last = ConfCall("set_cache", NoFunc, level, "absent", "none",
                                   FALSE, NoArrayResult, NoExc)]

CacheLevels == {-1, 0, 1, 2}
FuncArgs ==
    {NoFunc} \cup {Decorated(f) : f \in CachedFuncs} \cup {Wrapper(f) : f \in CachedFuncs}

cached_call ==
    /\ conf.ncalls < MaxInvocations
    /\ \E f \in CachedFuncs, arg \in CacheArgs, kw \in CacheKeywords :
          conf' = cached_function_call(f, arg, kw)
    /\ UNCHANGED <<iovars, rot, kern, wave>>

clear_cache_call ==
    /\ \E func \in FuncArgs : conf' = clear_cache(func)
    /\ UNCHANGED <<iovars, rot, kern, wave>>

set_cache_call ==
    /\ \E level \in CacheLevels : conf' = set_cache(level)
    /\ UNCHANGED <<iovars, rot, kern, wave>>

InitCache ==
    /\ double \in BOOLEAN
    /\ data = NoTriple
    /\ pc = "idle"
    /\ call = NoCall
    /\ result = NoResult
    /\ fs = [p \in Paths |-> Absent]
    /\ stream = NoCall.stream0
    /\ fh = NoHandle
    /\ ghost = NoGhost
    /\ rot = NoRot
    /\ kern = NoKern
    /\ wave = NoWave
    /\ conf = ConfInit

NextCache ==
    \/ cached_call
    \/ clear_cache_call
    \/ set_cache_call

SpecCache == InitCache /\ [][NextCache]_vars

-----------------------------------------------------------------------------
(* Properties of the result cache *)

Results(func_cache) == {e[2] : e \in func_cache}

\* the step was a call of the wrapper of f / a call clear_cache(func)
CalledWrapper(f) == conf'.last.op = "call" /\ conf'.last.f = Wrapper(f)
Cleared(func) == conf'.last.op = "clear_cache" /\ conf'.last.f = func

OthersKept(f) == \A h \in CachedFuncs \ {f} : conf'.cached[h] = conf.cached[h]

\* at most one entry for each function; a hit returns the stored result and
\* runs nothing; a miss that returns leaves exactly the new entry
SingleEntry ==
    /\ \A f \in CachedFuncs : Cardinality(conf'.cached[f]) <= 1
    /\ \A f \in CachedFuncs :
          CalledWrapper(f) =>
             /\ conf'.last.lookup = "hit" =>
                   /\ conf'.last.res \in Results(conf.cached[f])
                   /\ ~conf'.last.invoked
                   /\ conf'.ncalls = conf.ncalls
                   /\ conf'.cached = conf.cached
             /\ (conf'.last.lookup = "miss" /\ conf'.last.exc = NoExc) =>
                   /\ conf'.last.invoked
                   /\ conf'.last.res.id = conf.ncalls + 1
                   /\ Results(conf'.cached[f]) = {conf'.last.res}
                   /\ OthersKept(f)

ClearsOnly(func) ==
    Cleared(func) =>
        /\ conf'.last.exc = NoExc
        /\ IF func = NoFunc THEN \A f \in CachedFuncs : conf'.cached[f] = {}
           ELSE conf'.cached[func[2]] = {} /\ OthersKept(func[2])

(* C15: at every step the cache of each function holds at most one entry;   *)
(* a call that misses evicts the previous entry and stores the new one, a   *)
(* call that hits returns the stored result without running the underlying  *)
(* function; clear_cache(func) empties the cache of that function only and  *)
(* clear_cache() empties every cache.                                       *)
C15_SingleEntryPolicy ==
    [][SingleEntry /\ \A func \in FuncArgs : ClearsOnly(func)]_vars

(* What of C15 holds: the same with clear_cache(func) called with the       *)
(* function that was decorated, which is the key of _cache, and not with    *)
(* the wrapper; clear_cache(wrapper) raises KeyError and empties nothing.   *)
C15_PolicyOfDecorated ==
    [][/\ SingleEntry
       /\ \A func \in {NoFunc} \cup {Decorated(f) : f \in CachedFuncs} : ClearsOnly(func)
       /\ \A f \in CachedFuncs :
             Cleared(Wrapper(f)) =>
                conf'.last.exc.type = "KeyError" /\ conf'.cached = conf.cached]_vars

(* C16: while DTMMConfig.cache is 0 (after set_cache(0)) every call of a    *)
(* wrapped function runs the underlying function and returns its new        *)
(* result, and no cache entry is read, stored or evicted.                   *)
C16_CacheOff ==
    [][\A f \in CachedFuncs :
          (CalledWrapper(f) /\ conf.cache = 0) =>
             /\ conf'.last.lookup = "none"
             /\ conf'.last.invoked
             /\ conf'.last.res.id = conf.ncalls + 1
             /\ conf'.cached = conf.cached]_vars

(* What of C16 holds: while DTMMConfig.cache is 0 a call that passes        *)
(* cache = False runs the underlying function and leaves the caches alone.  *)
C16_OffWithKeyword ==
    [][\A f \in CachedFuncs :
          (CalledWrapper(f) /\ conf.cache = 0 /\ conf'.last.kw = "False") =>
             /\ conf'.last.lookup = "none"
             /\ conf'.last.invoked
             /\ conf'.last.res.id = conf.ncalls + 1
             /\ conf'.cached = conf.cached]_vars

-----------------------------------------------------------------------------
\* rotation.py, lines 248-269: the per-voxel kernels.  element is the float
\* array (e0, theta, phi) of one voxel, phi0 the reference angle, R the 3x3
\* buffer the kernel fills.  An angle is its <<cos, sin>> pair, so a
\* difference of angles is the pair of the difference.

\* element[2] - phi0
AngleSub(a, b) ==
    << QAdd(QMul(cos(a), cos(b)), QMul(sin(a), sin(b))),
       QSub(QMul(sin(a), cos(b)), QMul(cos(a), sin(b))) >>

\* -phi0
AngleNeg(a) == << cos(a), QNeg(sin(a)) >>

\* np.pi/2
HalfPi == <<Q0, Q1>>

_calc_rotations_uniaxial(phi0, element) ==
    LET theta == element[2]
        phi == AngleSub(element[3], phi0)
    IN  _rotation_matrix_uniaxial(theta, phi)

_calc_rotations_isotropic(phi0) ==
    LET theta == HalfPi
        phi == AngleNeg(phi0)
    IN  _rotation_matrix_uniaxial(theta, phi)

_calc_rotations(phi0, element) ==
    LET yaw == Angle0
        theta == element[2]
        phi == AngleSub(element[3], phi0)
    IN  _rotation_matrix(yaw, theta, phi)

\* the angles of the samples: the first quadrant of Angles
VoxelAngles == {a \in Angles : cos(a)[1] >= 0 /\ sin(a)[1] >= 0}

Elements == VoxelAngles \X VoxelAngles \X VoxelAngles

\* two R buffers of the caller's, holding whatever they held before
Buffers == {<<Const2(3, 3, g), Const2(3, 3, h)>> : g, h \in {QI(7), Q0}}

\* the record of a kernel call: the arguments, the caller's buffers before,
\* which of them was passed as R, the buffers and the sample after
VoxelCall(fn, phi0, element, bufs, target, R) ==
    [fn |-> fn, phi0 |-> phi0, element |-> element, bufs |-> bufs,
     target |-> target, res |-> R,
     after |-> [bufs EXCEPT ![target] = R], sample |-> element]

_calc_rotations_call ==
    /\ rot.fn = "none"
    /\ \E phi0 \in VoxelAngles, element \in Elements, bufs \in Buffers,
          target \in 1..2 :
          rot' = VoxelCall("_calc_rotations", phi0, element, bufs, target,
                           _calc_rotations(phi0, element))
    /\ UNCHANGED <<iovars, others>>

_calc_rotations_uniaxial_call ==
    /\ rot.fn = "none"
    /\ \E phi0 \in VoxelAngles, element \in Elements, bufs \in Buffers,
          target \in 1..2 :
          rot' = VoxelCall("_calc_rotations_uniaxial", phi0, element, bufs, target,
                           _calc_rotations_uniaxial(phi0, element))
    /\ UNCHANGED <<iovars, others>>

\* the sample of the voxel is not an argument of the isotropic kernel
_calc_rotations_isotropic_call ==
    /\ rot.fn = "none"
    /\ \E phi0 \in VoxelAngles, element \in Elements, bufs \in Buffers,
          target \in 1..2 :
          rot' = VoxelCall("_calc_rotations_isotropic", phi0, element, bufs, target,
                           _calc_rotations_isotropic(phi0))
    /\ UNCHANGED <<iovars, others>>

InitVoxel == InitRot

NextVoxel ==
    \/ _calc_rotations_call
    \/ _calc_rotations_uniaxial_call
    \/ _calc_rotations_isotropic_call

SpecVoxel == InitVoxel /\ [][NextVoxel]_vars

VoxelKernels == {"_calc_rotations", "_calc_rotations_uniaxial",
                 "_calc_rotations_isotropic"}

\* the kernel left the other buffer and the sample as they were
OnlyOwnR ==
    /\ rot.after[3 - rot.target] = rot.bufs[3 - rot.target]
    /\ rot.after[rot.target] = rot.res
    /\ rot.sample = rot.element

UniaxialFilled ==
    rot.fn = "_calc_rotations_uniaxial" =>
        rot.res = _rotation_matrix_uniaxial(rot.element[2],
                                            AngleSub(rot.element[3], rot.phi0))

IsotropicFilled ==
    rot.fn = "_calc_rotations_isotropic" =>
        rot.res = _rotation_matrix_uniaxial(HalfPi, AngleNeg(rot.phi0))

\* C18: for a sample element = (e0, theta, phi) and reference angle phi0,
\* _calc_rotations fills R with the rotation matrix of yaw = e0, theta and
\* phi - phi0, _calc_rotations_uniaxial with the uniaxial matrix of theta and
\* phi - phi0, _calc_rotations_isotropic with the uniaxial matrix of pi/2 and
\* -phi0 whatever the sample, and each kernel writes only its own R.
C18_VoxelKernels ==
    rot.fn \in VoxelKernels =>
        /\ rot.fn = "_calc_rotations" =>
               rot.res = _rotation_matrix(rot.element[1], rot.element[2],
                                          AngleSub(rot.element[3], rot.phi0))
        /\ UniaxialFilled
        /\ IsotropicFilled
        /\ OnlyOwnR

\* what the code does: the general kernel ignores element[0] and fills R
\* with the matrix of yaw = 0, which is the uniaxial matrix when the sample
\* has no twist; the rest is as C18 states
C18_YawIgnored ==
    rot.fn \in VoxelKernels =>
        /\ rot.fn = "_calc_rotations" =>
               /\ rot.res = _rotation_matrix(Angle0, rot.element[2],
                                             AngleSub(rot.element[3], rot.phi0))
               /\ rot.element[1] = Angle0 =>
                      rot.res = _rotation_matrix(rot.element[1], rot.element[2],
                                                 AngleSub(rot.element[3], rot.phi0))
        /\ UniaxialFilled
        /\ IsotropicFilled
        /\ OnlyOwnR

\* a general-path call of a sample with a twist
C18_TwistedSample ==
    /\ rot.fn = "_calc_rotations"
    /\ sin(rot.element[1]) /= Q0
    /\ Oblique(rot.element[2])
    /\ rot.phi0 /= Angle0

=============================================================================
